---- MODULE Spec2Model ----
(***************************************************************************)
(* Model of the Azure image validation pipeline:                           *)
(*   fedora_cloud_tests/azure.py        AzurePublishedConsumer             *)
(*   fedora_cloud_tests/trigger_lisa.py LisaRunner                         *)
(*   fedora_cloud_tests_messages/.../publish.py AzureTestResults           *)
(*                                                                         *)
(* A Python str is a sequence of atoms.  The atom "/" is the slash; every  *)
(* other atom is a non-empty piece of text holding no slash, so splitting  *)
(* on "/" and concatenation act on atoms as they act on characters.       *)
(* A Python value is a record [t, v]: t its type, v its text (str), its    *)
(* decimal digits (int) or its elements (list).                            *)
(***************************************************************************)
EXTENDS Integers, Sequences, FiniteSets, TLC

VARIABLES
    conf,        \* config.conf["consumer_config"]["azure"]: [region, subscription_id]
    r_message,   \* resolver check: the notification handed to get_community_gallery_image
    r_result,    \* resolver check: what the call did, [exc, val]; exc = "pending" before
    x_report,    \* extractor check: <log_path>/<run_name> on disk, [dir, found, doc]
    x_result,    \* extractor check: what _parse_test_results did; exc = "pending" before
    t_args,      \* invoker check: [region, image, config] handed to trigger_lisa
    t_pc,        \* invoker check: where trigger_lisa stands: "call", "reading", "returned"
    t_command,   \* invoker check: the argv given to create_subprocess_exec, <<>> before
    t_child,     \* invoker check: the child process: "none", "running", "exited"
    t_code,      \* invoker check: the exit status of the child once it exited
    t_written,   \* invoker check: the lines the child wrote to the pipe so far
    t_nread,     \* invoker check: how many of them `async for line` has taken
    t_log,       \* invoker check: the log records of the call, in order
    t_result,    \* invoker check: what the call did, [exc, val]; exc = "pending" before
    w_run,       \* workspace check: per worker [phase, dir, key, n, met] of its current run
    w_dirs,      \* workspace check: the temporary directories that exist
    w_files,     \* workspace check: the files in them, [dir, name, by: the run that wrote it]
    p_message,   \* publisher check: the notification handed to publish_test_results
    p_results,   \* publisher check: the test_results handed to it
    p_body,      \* publisher check: the bodies given to api.publish, in order
    p_log,       \* publisher check: the log records of the call, in order
    p_result,    \* publisher check: what the call did, [exc]; exc = "pending" before
    f_tree,      \* finder check: what is under log_path, a set of [path, kind]
    f_result,    \* finder check: what _find_xml_file returned, [t, path]; t = "pending" before
    v_body,      \* schema check: the body of the AzureTestResults message
    v_result,    \* schema check: what message.validate() did: "pending", "none", "ValidationError"
    pc,          \* where azure_published_callback stands
    runs,        \* notifications delivered to the callback so far
    notification,\* the notification of the current run
    image,       \* community_gallery_image
    fs,          \* the temporary directories that exist
    workspace,   \* log_path: the run's TemporaryDirectory, "none" when it has none
    keyfile,     \* <log_path>/id_rsa: "absent", or its mode "0644" / "0600"
    private_key, \* what _generate_ssh_key_pair returned
    report,      \* <log_path>/<run_name> on disk, [dir, found, doc]
    proc,        \* the lisa child process: "none", "running", "exited", "killed"
    exitCode,    \* process.returncode once it exited
    ret,         \* what trigger_lisa returned: "unset", "True", "False"
    test_results,\* what _parse_test_results returned
    raising,     \* the exception unwinding the with block, "none" when there is none
    escaped,     \* the exception the callback raised to its caller, "none" when it returned
    log,         \* the log records of the current run, as a set of tags
    calls,       \* how often the current run did each thing
    minute,      \* the wall clock, in minutes
    current_run_name, \* run_name of the current run
    names,       \* the run names generated so far, in order
    lisa_command, \* the argv the current run started the tool with, <<>> when it started none
    searched_path, \* the directory _find_xml_file of the current run searched, <<>> before
    steps        \* the steps the current run has begun, in order

resolveVars == <<r_message, r_result>>
extractVars == <<x_report, x_result>>
invokeVars == <<t_args, t_pc, t_command, t_child, t_code, t_written, t_nread, t_log, t_result>>
workVars == <<w_run, w_dirs, w_files>>
publishVars == <<p_message, p_results, p_body, p_log, p_result>>
validateVars == <<v_body, v_result>>
findVars == <<f_tree, f_result>>
checkVars == <<conf, r_message, r_result, x_report, x_result, invokeVars, workVars, publishVars,
               validateVars, findVars>>
layoutVars == <<minute, current_run_name, names, lisa_command, searched_path, steps>>
runVars == <<pc, runs, notification, image, fs, workspace, keyfile, private_key, report, proc,
             exitCode, ret, test_results, raising, escaped, log, calls, layoutVars>>

----------------------------------------------------------------------------
(* Bounds *)

\* longest image_resource_id, in atoms, the resolver is tried on
MaxIdLen == 4
\* most <testsuite> children of a <testsuites> root
MaxSuites == 2
\* most <testcase> elements of one report
MaxCases == 3
\* notifications delivered to one consumer
MaxRuns == 2
\* minute boundaries the clock crosses
MaxMinutes == 1
\* lines the child process writes during one call of trigger_lisa
MaxLines == 3
\* runs in flight at the same time
MaxWorkers == 2

----------------------------------------------------------------------------
(* Python values *)

None == [t |-> "none", v |-> <<>>]
PyStr(s) == [t |-> "str", v |-> s]
PyInt(digits) == [t |-> "int", v |-> digits]
PyList(items) == [t |-> "list", v |-> items]

\* bool(x), as `not x` and all([...]) evaluate it
Truthy(x) ==
    CASE x.t = "none" -> FALSE
      [] x.t = "str" -> x.v # <<>>
      [] x.t = "int" -> x.v # <<"0">>
      [] x.t = "list" -> x.v # <<>>
      [] OTHER -> TRUE

\* f"{x}" for a str or an int
Format(x) == x.v

\* what a function call did: returned val, or raised exc
Return(val) == [exc |-> "none", val |-> val]
Raise(exc) == [exc |-> exc, val |-> None]
Pending == [exc |-> "pending", val |-> None]

\* try: r  except <classes>: handler
TryExcept(r, classes, handler) ==
    IF r.exc \in classes THEN handler ELSE r

\* s.split("/")
RECURSIVE Split(_)
Split(s) ==
    IF \A i \in 1..Len(s) : s[i] # "/"
    THEN <<s>>
    ELSE LET i == CHOOSE k \in 1..Len(s) :
                      s[k] = "/" /\ \A j \in 1..(k - 1) : s[j] # "/"
         IN <<SubSeq(s, 1, i - 1)>> \o Split(SubSeq(s, i + 1, Len(s)))

\* every sequence over S of length at most n
RECURSIVE SeqsUpTo(_, _)
SeqsUpTo(S, n) ==
    IF n = 0 THEN {<<>>}
    ELSE LET shorter == SeqsUpTo(S, n - 1)
         IN shorter \cup {Append(s, x) : s \in {q \in shorter : Len(q) = n - 1}, x \in S}

----------------------------------------------------------------------------
(* Notifications *)

SUPPORTED_FEDORA_VERSIONS ==
    { <<"Fedora-Cloud-Rawhide-x64">>, <<"Fedora-Cloud-41-x64">>,
      <<"Fedora-Cloud-41-Arm64">>, <<"Fedora-Cloud-Rawhide-Arm64">>,
      <<"Fedora-Cloud-42-x64">>, <<"Fedora-Cloud-42-Arm64">> }

BodyKeys == {"architecture", "compose_id", "image_definition_name",
             "image_version_name", "image_resource_id"}

\* a body that is a dict; a key the dict lacks maps to None, as dict.get gives
Dict(fields) == [t |-> "dict", v |-> <<>>, f |-> fields]
\* a body that is not a dict (a str, an int, a list, None)
NonDict(x) == [t |-> x.t, v |-> x.v, f |-> [k \in BodyKeys |-> None]]

Message(body) == [topic |-> "published.v1.azure", body |-> body]

\* message.body.get(key): AttributeError when the body has no .get
BodyGet(message, key) ==
    IF message.body.t = "dict" THEN Return(message.body.f[key])
    ELSE Raise("AttributeError")

----------------------------------------------------------------------------
(* Image Identifier Resolver *)

_get_image_definition_name(message) ==
    TryExcept(
        LET got == BodyGet(message, "image_definition_name")
        IN IF got.exc # "none" THEN got
           ELSE IF got.val.t # "str" THEN Return(None)
           ELSE Return(got.val),
        {"AttributeError"}, Return(None))

\* (mutant) the segment before the one the code takes
ScopeSegmentSecond(parts) == parts[2]

\* parts = image_resource_id.split("/"); parts[2]: the 3rd segment (1-based here)
ScopeSegment(parts) == parts[3]

\* (mutant) no except clause
ResolverCaughtNothing == {}

\* `except AttributeError` of get_community_gallery_image
ResolverCaught == {"AttributeError"}

\* (mutant) no allow-list
NotSupportedNever(name) == FALSE

\* `image_definition_name not in self.SUPPORTED_FEDORA_VERSIONS`
NotSupported(name) == ~(name.t = "str" /\ name.v \in SUPPORTED_FEDORA_VERSIONS)

get_community_gallery_image(message, cf) ==
    TryExcept(
        IF message.body.t # "dict" THEN Return(None)
        ELSE LET image_definition_name == _get_image_definition_name(message).val
                 image_version_name == message.body.f["image_version_name"]
                 image_resource_id == message.body.f["image_resource_id"]
             IN IF NotSupported(image_definition_name) THEN Return(None)
                ELSE IF ~(Truthy(image_definition_name) /\ Truthy(image_version_name)
                          /\ Truthy(image_resource_id))
                THEN Return(None)
                ELSE IF image_resource_id.t # "str" THEN Raise("AttributeError")
                ELSE LET parts == Split(image_resource_id.v)
                     IN IF Len(parts) < 3 THEN Return(None)
                        ELSE Return(PyStr(cf.region \o <<"/">> \o ScopeSegment(parts)
                                        \o <<"/">> \o Format(image_definition_name)
                                        \o <<"/">> \o Format(image_version_name))),
        ResolverCaught, Return(None))

----------------------------------------------------------------------------
(* The report: an XML document as xml.etree.ElementTree reads it *)

\* element.attrib.get(key, default) on an attribute map; None is a missing attribute
AttribGet(attrib, key, default) ==
    IF attrib[key] = None THEN default ELSE attrib[key].v

AsciiDigits == {"0", "1", "2", "3", "4", "5", "6", "7", "8", "9"}
\* characters str.isdigit() accepts and int() rejects
SuperscriptDigits == {"^2"}

DigitValue(c) ==
    CASE c = "0" -> 0 [] c = "1" -> 1 [] c = "2" -> 2 [] c = "3" -> 3 [] c = "4" -> 4
      [] c = "5" -> 5 [] c = "6" -> 6 [] c = "7" -> 7 [] c = "8" -> 8 [] c = "9" -> 9

\* s.isdigit()
IsDigit(s) == s # <<>> /\ \A i \in 1..Len(s) : s[i] \in AsciiDigits \cup SuperscriptDigits

\* int(s) for s of ASCII digits
RECURSIVE IntOf(_)
IntOf(s) ==
    IF s = <<>> THEN 0
    ELSE 10 * IntOf(SubSeq(s, 1, Len(s) - 1)) + DigitValue(s[Len(s)])

\* `int(attr_value) if attr_value.isdigit() else 0` raises ValueError
CounterRaises(attr_value) ==
    IsDigit(attr_value) /\ \E i \in 1..Len(attr_value) : attr_value[i] \in SuperscriptDigits

\* `int(attr_value) if attr_value.isdigit() else 0`, when it does not raise
CounterValue(attr_value) ==
    IF IsDigit(attr_value) /\ ~CounterRaises(attr_value) THEN IntOf(attr_value) ELSE 0

CounterAttrs == {"tests", "failures", "errors", "skipped"}

\* root.findall("testsuite"): the direct children with that tag, in document order
FindallTestsuite(root) == SelectSeq(root.suites, LAMBDA e : e.tag = "testsuite")

RECURSIVE SumCounter(_, _)
SumCounter(suites, attr) ==
    IF suites = <<>> THEN 0
    ELSE CounterValue(AttribGet(Head(suites).attrib, attr, <<"0">>))
         + SumCounter(Tail(suites), attr)

\* the root tags _extract_test_counters accepts
RootTags == {"testsuite", "testsuites"}

_extract_test_counters(root) ==
    IF root.tag \notin RootTags THEN [exc |-> "none", none |-> TRUE, c |-> <<>>]
    ELSE LET own == [a \in CounterAttrs |-> CounterValue(AttribGet(root.attrib, a, <<"0">>))]
             sums == own["tests"] = 0 /\ root.tag # "testsuite"
             suites == FindallTestsuite(root)
             raises ==
                 \/ \E a \in CounterAttrs : CounterRaises(AttribGet(root.attrib, a, <<"0">>))
                 \/ /\ sums
                    /\ \E i \in 1..Len(suites), a \in CounterAttrs :
                           CounterRaises(AttribGet(suites[i].attrib, a, <<"0">>))
             total == [a \in CounterAttrs |->
                          IF sums THEN own[a] + SumCounter(suites, a) ELSE own[a]]
         IN IF raises THEN [exc |-> "ValueError", none |-> FALSE, c |-> <<>>]
            ELSE [exc |-> "none", none |-> FALSE,
                  c |-> [total_tests |-> total["tests"], failures |-> total["failures"],
                         errors |-> total["errors"], skipped |-> total["skipped"]]]

\* f"{x}" for an attribute that may be missing
FormatAttr(x) == IF x = None THEN <<"None">> ELSE x.v

\* (mutant) the test name alone
TestIdentifierNoSuite(suite_name, test_name) == FormatAttr(test_name)

\* test_identifier = f"{suite_name}.{test_name}"
TestIdentifier(suite_name, test_name) ==
    FormatAttr(suite_name) \o <<".">> \o FormatAttr(test_name)

\* (mutant) the skipped child looked for first
ClassifySkippedFirst(testcase) ==
    IF testcase.skipped THEN "skipped"
    ELSE IF testcase.failure THEN "failed"
    ELSE IF testcase.error THEN "failed"
    ELSE "passed"

\* the if/elif chain on testcase.find('failure'), find('error'), find('skipped')
Classify(testcase) ==
    IF testcase.failure THEN "failed"
    ELSE IF testcase.error THEN "failed"
    ELSE IF testcase.skipped THEN "skipped"
    ELSE "passed"

\* the inner loop: one entry per <testcase> directly under the suite
SuiteEntries(suite) ==
    [i \in 1..Len(suite.cases) |->
        [id |-> TestIdentifier(suite.name, suite.cases[i].name),
         status |-> Classify(suite.cases[i])]]

RECURSIVE AllEntries(_)
AllEntries(suites) ==
    IF suites = <<>> THEN <<>>
    ELSE SuiteEntries(Head(suites)) \o AllEntries(Tail(suites))

\* test_suites = root.findall("testsuite") if root.tag == "testsuites" else [root]
TestSuitesOf(root) ==
    IF root.tag = "testsuites" THEN FindallTestsuite(root) ELSE <<root>>

IdsOf(entries, status) ==
    LET kept == SelectSeq(entries, LAMBDA e : e.status = status)
    IN [i \in 1..Len(kept) |-> kept[i].id]

_extract_test_details(root) ==
    LET entries == AllEntries(TestSuitesOf(root))
    IN [passed |-> IdsOf(entries, "passed"),
        failed |-> IdsOf(entries, "failed"),
        skipped |-> IdsOf(entries, "skipped")]

Max(a, b) == IF a >= b THEN a ELSE b

_calculate_final_results(counters, test_details) ==
    LET failed_total == counters.failures + counters.errors
        passed_tests == Max(0, counters.total_tests - failed_total - counters.skipped)
    IN [total_tests |-> counters.total_tests,
        passed |-> passed_tests,
        failed |-> counters.failures,
        skipped |-> counters.skipped,
        errors |-> counters.errors,
        failed_test_names |-> test_details.failed,
        skipped_test_names |-> test_details.skipped,
        passed_test_names |-> test_details.passed]

\* ET.parse(xml_file).getroot(): ParseError on a document that is not well-formed
ET_parse(doc) ==
    IF doc.wellformed THEN [exc |-> "none", root |-> doc.root]
    ELSE [exc |-> "ParseError", root |-> doc.root]

\* _find_xml_file: the run directory is missing, holds no *lisa.junit.xml, or holds one
_find_xml_file(run_dir) == run_dir.dir /\ run_dir.found

\* (mutant) no except clause
ParseCaughtNothing == {}

\* `except ET.ParseError` of _parse_test_results
ParseCaught == {"ParseError"}

\* the result of _parse_test_results: [exc, none, summary]
NoSummary == [exc |-> "none", none |-> TRUE, summary |-> <<>>]
Summary(s) == [exc |-> "none", none |-> FALSE, summary |-> s]
ParseRaised(e) == [exc |-> e, none |-> FALSE, summary |-> <<>>]
ParsePending == [exc |-> "pending", none |-> FALSE, summary |-> <<>>]

_parse_test_results(run_dir) ==
    IF ~_find_xml_file(run_dir) THEN NoSummary
    ELSE LET parsed == ET_parse(run_dir.doc)
             counters == _extract_test_counters(parsed.root)
             body ==
                 IF parsed.exc # "none" THEN ParseRaised(parsed.exc)
                 ELSE IF counters.exc # "none" THEN ParseRaised(counters.exc)
                 ELSE IF counters.none THEN NoSummary
                 ELSE Summary(_calculate_final_results(
                                  counters.c, _extract_test_details(parsed.root)))
         IN IF body.exc \in ParseCaught THEN NoSummary ELSE body

----------------------------------------------------------------------------
(* Inputs of the resolver check *)

Confs == { [region |-> <<"westus3">>, subscription_id |-> <<"sub-0">>],
           [region |-> <<"westus3">>, subscription_id |-> <<>>] }

DefinitionNames ==
    { None, PyInt(<<"7">>), PyStr(<<>>), PyStr(<<"Fedora-Cloud-Unsupported-x64">>),
      PyStr(<<"Fedora-Cloud-41-x64", "-beta">>),
      PyStr(<<"Fedora-Cloud-41-x64">>), PyStr(<<"Fedora-Cloud-Rawhide-Arm64">>) }

VersionNames ==
    { None, PyStr(<<>>), PyStr(<<"20250101.0">>), PyInt(<<"0">>), PyInt(<<"7">>) }

ResourceIds ==
    { None, PyInt(<<"7">>), PyList(<<"x">>) }
    \cup { PyStr(s) : s \in SeqsUpTo({"/", "sub"}, MaxIdLen) }

BodyOf(d, ver, rid) ==
    Dict([k \in BodyKeys |->
             CASE k = "image_definition_name" -> d
               [] k = "image_version_name" -> ver
               [] k = "image_resource_id" -> rid
               [] k = "architecture" -> PyStr(<<"x86_64">>)
               [] OTHER -> PyStr(<<"Fedora-Rawhide-20250922.n.0">>)])

ResolverBodies ==
    { NonDict(None), NonDict(PyStr(<<"not_a_dict">>)), NonDict(PyInt(<<"7">>)),
      NonDict(PyList(<<"x">>)) }
    \cup { BodyOf(d, ver, rid) :
             d \in DefinitionNames, ver \in VersionNames, rid \in ResourceIds }

----------------------------------------------------------------------------
(* Inputs of the extractor check *)

NoAttrib == [a \in CounterAttrs |-> None]
Attrib(tests, failures, errors, skipped) ==
    [a \in CounterAttrs |->
        CASE a = "tests" -> tests [] a = "failures" -> failures
          [] a = "errors" -> errors [] OTHER -> skipped]

RootAttribs ==
    { NoAttrib,
      Attrib(PyStr(<<"3">>), None, None, None),
      Attrib(PyStr(<<"1", "2">>), PyStr(<<"1">>), PyStr(<<"x">>), PyStr(<<"1">>)),
      Attrib(PyStr(<<"^2">>), None, None, None) }

Element(tag, name, attrib, suites, cases) ==
    [tag |-> tag, name |-> name, attrib |-> attrib, suites |-> suites, cases |-> cases]

TestCase(name, failure, error, skipped) ==
    [name |-> name, failure |-> failure, error |-> error, skipped |-> skipped]

TestCases ==
    { TestCase(PyStr(<<"c">>), FALSE, FALSE, FALSE),
      TestCase(PyStr(<<"d">>), FALSE, FALSE, TRUE),
      TestCase(PyStr(<<"e">>), TRUE, FALSE, FALSE),
      TestCase(PyStr(<<"c">>), TRUE, FALSE, TRUE),
      TestCase(PyStr(<<"b", ".", "c">>), FALSE, TRUE, FALSE) }

\* the test cases tried under the children of a <testsuites> root
ChildCases ==
    { TestCase(PyStr(<<"c">>), FALSE, FALSE, FALSE),
      TestCase(PyStr(<<"b", ".", "c">>), TRUE, FALSE, TRUE) }

CasesExactly(k) == { cs \in SeqsUpTo(ChildCases, k) : Len(cs) = k }

\* the children of a <testsuites> root that hold exactly k test cases
ChildrenWith(k) ==
    { Element("testsuite", PyStr(<<"a", ".", "b">>), NoAttrib, <<>>, cs) :
        cs \in CasesExactly(k) }
    \cup { Element("testsuite", PyStr(<<"a">>),
                   Attrib(PyStr(<<"2">>), PyStr(<<"1">>), None, PyStr(<<"^2">>)),
                   <<>>, cs) : cs \in CasesExactly(k) }
    \cup (IF k = 0 THEN { Element("properties", None, NoAttrib, <<>>, <<>>) } ELSE {})

\* the sequences of at most ns children holding at most budget test cases together
RECURSIVE SuiteSeqs(_, _)
SuiteSeqs(ns, budget) ==
    IF ns = 0 THEN {<<>>}
    ELSE {<<>>} \cup UNION { { <<e>> \o rest : e \in ChildrenWith(k),
                                              rest \in SuiteSeqs(ns - 1, budget - k) } :
                             k \in 0..budget }

Roots ==
    { Element("testsuite", n, a, <<>>, cs) :
        n \in {PyStr(<<"a">>), None}, a \in RootAttribs, cs \in SeqsUpTo(TestCases, MaxCases) }
    \cup { Element("testsuites", None, a, ss, <<>>) :
             a \in {NoAttrib, Attrib(PyStr(<<"3">>), None, None, None)},
             ss \in SuiteSeqs(MaxSuites, MaxCases) }
    \cup { Element("html", None, a, <<>>, cs) :
             a \in {NoAttrib, Attrib(PyStr(<<"3">>), None, None, None)},
             cs \in SeqsUpTo(TestCases, 1) }

\* a document cut short or otherwise not well-formed still holds what precedes the error
Documents ==
    { [wellformed |-> TRUE, root |-> r] : r \in Roots }
    \cup { [wellformed |-> FALSE, root |-> Element("testsuite", PyStr(<<"a">>), a, <<>>, cs)] :
             a \in {NoAttrib, Attrib(PyStr(<<"3">>), None, None, None)},
             cs \in SeqsUpTo(TestCases, 1) }

EmptyDocument == [wellformed |-> TRUE, root |-> Element("testsuite", None, NoAttrib, <<>>, <<>>)]

Reports ==
    { [dir |-> FALSE, found |-> FALSE, doc |-> EmptyDocument],
      [dir |-> TRUE, found |-> FALSE, doc |-> EmptyDocument] }
    \cup { [dir |-> TRUE, found |-> TRUE, doc |-> d] : d \in Documents }

----------------------------------------------------------------------------
(* Workspace Provisioner: _generate_ssh_key_pair *)

\* what running ssh-keygen and the checks after it can come to
KeygenOutcomes == {"ok", "exit_nonzero", "not_started", "no_file", "chmod_error", "timeout"}

\* `except (subprocess.CalledProcessError, OSError)` of _generate_ssh_key_pair
KeygenCaught == {"CalledProcessError", "OSError"}

\* (mutant) a key kept in the home directory
PrivateKeyPathHome(temp_dir) == PyStr(<<"/root/.ssh", "/", "id_rsa">>)

\* os.path.join(temp_dir, "id_rsa")
PrivateKeyPath(temp_dir) == PyStr(<<temp_dir, "/", "id_rsa">>)

\* what _generate_ssh_key_pair logs at error level: the error of the file check
\* (line 466), or of the except clause with the exception it caught (line 473)
KeygenErrors(exc, file) ==
    IF exc \in KeygenCaught THEN {"Failed to generate SSH key pair: " \o exc}
    ELSE IF exc = "none" /\ file = "absent" THEN {"private key file was not found"}
    ELSE {}

\* [exc, val: the path or None, file: the key file afterwards, started: ssh-keygen
\*  ran, logged: the errors logged]
_generate_ssh_key_pair(temp_dir, outcome) ==
    LET tried ==
            CASE outcome = "ok" ->
                   [exc |-> "none", val |-> PrivateKeyPath(temp_dir), file |-> "0600",
                    started |-> TRUE]
              [] outcome = "exit_nonzero" ->
                   [exc |-> "CalledProcessError", val |-> None, file |-> "absent",
                    started |-> TRUE]
              [] outcome = "not_started" ->
                   [exc |-> "OSError", val |-> None, file |-> "absent", started |-> FALSE]
              [] outcome = "no_file" ->
                   [exc |-> "none", val |-> None, file |-> "absent", started |-> TRUE]
              [] outcome = "chmod_error" ->
                   [exc |-> "OSError", val |-> None, file |-> "0644", started |-> TRUE]
              [] OTHER ->
                   [exc |-> "TimeoutExpired", val |-> None, file |-> "absent",
                    started |-> TRUE]
    IN [exc |-> IF tried.exc \in KeygenCaught THEN "none" ELSE tried.exc,
        val |-> tried.val, file |-> tried.file, started |-> tried.started,
        logged |-> KeygenErrors(tried.exc, tried.file)]

----------------------------------------------------------------------------
(* Test Invoker: LisaRunner.trigger_lisa *)

\* config_params of azure_published_callback
ConfigParams(subscription, key, log_path, run_name) ==
    [t |-> "dict", subscription |-> subscription, private_key |-> key,
     log_path |-> log_path, run_name |-> run_name]

\* (mutant) the private key looked at first
trigger_lisa_validate_key_first(region, community_gallery_image, config) ==
    IF config.t = "dict" /\ ~Truthy(config.private_key)
    THEN "Missing required parameter: private_key"
    ELSE IF ~Truthy(region) \/ region.t # "str"
    THEN "Invalid region parameter: must be a non-empty string"
    ELSE IF ~Truthy(community_gallery_image) \/ community_gallery_image.t # "str"
    THEN "Invalid community_gallery_image parameter: must be a non-empty string"
    ELSE IF config.t # "dict"
    THEN "Invalid config parameter: must be a dictionary"
    ELSE IF ~Truthy(config.subscription)
    THEN "Missing required parameter: subscription"
    ELSE "ok"

\* the checks ahead of the try block: the error logged by the first that fails, or "ok"
trigger_lisa_validate(region, community_gallery_image, config) ==
    IF ~Truthy(region) \/ region.t # "str"
    THEN "Invalid region parameter: must be a non-empty string"
    ELSE IF ~Truthy(community_gallery_image) \/ community_gallery_image.t # "str"
    THEN "Invalid community_gallery_image parameter: must be a non-empty string"
    ELSE IF config.t # "dict"
    THEN "Invalid config parameter: must be a dictionary"
    ELSE IF ~Truthy(config.subscription)
    THEN "Missing required parameter: subscription"
    ELSE IF ~Truthy(config.private_key)
    THEN "Missing required parameter: private_key"
    ELSE "ok"

\* the bool trigger_lisa returns for an exit status: `process.returncode == 0`
ReturnOf(returncode) == IF returncode = 0 THEN "True" ELSE "False"

ExitCodes == {0, 1}

\* `if ret == 0:` of azure_published_callback, ret being a bool: True == 0 is
\* False and False == 0 is True
RetEqualsZero(r) == r = "False"

\* the argv before the optional parameters: lines 59-72
BaseCommand(region, community_gallery_image, config) ==
    << <<"lisa">>,
       <<"-r">>, <<"microsoft/runbook/azure_fedora.yml">>,
       <<"-v">>, <<"tier:1">>,
       <<"-v">>, <<"test_case_name:verify_boot_error_fail_warnings">>,
       <<"-v">>, <<"region:">> \o Format(region),
       <<"-v">>, <<"community_gallery_image:">> \o Format(community_gallery_image),
       <<"-v">>, <<"subscription_id:">> \o Format(config.subscription),
       <<"-v">>, <<"admin_private_key_file:">> \o Format(config.private_key) >>

\* (mutant) -l added whatever log_path is
LogPathArgsAlways(log_path) == << <<"-l">>, Format(log_path) >>

\* `if log_path: command.extend(["-l", log_path])`
LogPathArgs(log_path) ==
    IF Truthy(log_path) THEN << <<"-l">>, Format(log_path) >> ELSE <<>>

\* (mutant) run_name not handed on
RunNameArgsNever(run_name) == <<>>

\* `if run_name: command.extend(["-i", run_name])`
RunNameArgs(run_name) ==
    IF Truthy(run_name) THEN << <<"-i">>, Format(run_name) >> ELSE <<>>

\* the command list of trigger_lisa: lines 59-87
Command(region, community_gallery_image, config) ==
    BaseCommand(region, community_gallery_image, config)
    \o LogPathArgs(config.log_path) \o RunNameArgs(config.run_name)

\* " ".join(command): TypeError when an element is no str (an extended
\* log_path or run_name that is an int or a list)
JoinRaises(config) ==
    \/ Truthy(config.log_path) /\ config.log_path.t # "str"
    \/ Truthy(config.run_name) /\ config.run_name.t # "str"

\* a log record
Record(level, msg, text) == [level |-> level, msg |-> msg, text |-> text]

\* the debug records of the optional parameters: lines 75-87
OptionalRecords(config) ==
    << IF Truthy(config.log_path)
       THEN Record("DEBUG", "Added log path: %s", Format(config.log_path))
       ELSE Record("DEBUG", "No log path provided, using LISA default", <<>>),
       IF Truthy(config.run_name)
       THEN Record("DEBUG", "Added run name: %s", Format(config.run_name))
       ELSE Record("DEBUG", "No run name provided, using LISA default", <<>>) >>

\* what a call of trigger_lisa did: returned the bool val, or raised exc
LisaReturn(val) == [exc |-> "none", val |-> val]
LisaRaise(e) == [exc |-> e, val |-> "unset"]
LisaPending == [exc |-> "pending", val |-> "unset"]

\* " ".join(command)
RECURSIVE Join(_)
Join(command) ==
    IF command = <<>> THEN <<>>
    ELSE IF Len(command) = 1 THEN Head(command)
    ELSE Head(command) \o <<" ">> \o Join(Tail(command))

\* (mutant) `except OSError`
InvokerCaughtOSError == {"FileNotFoundError", "OSError"}

\* `except Exception` of trigger_lisa, over the exceptions its try block raises
InvokerCaught == {"TypeError", "FileNotFoundError", "OSError", "UnicodeDecodeError"}

\* the try block raised e: the handler logs and returns False, or e leaves the call
Except(e, records) ==
    IF e \in InvokerCaught
    THEN /\ t_log' = records
                     \o << Record("ERROR", "An error occurred while running the tests: %s",
                                  <<e>>) >>
         /\ t_result' = LisaReturn("False")
    ELSE /\ t_log' = records
         /\ t_result' = LisaRaise(e)

\* line.decode(): UnicodeDecodeError on bytes that are no UTF-8
DecodeRaises(line) == \E i \in 1..Len(line) : line[i] = "\\xff"

\* str.strip()
RECURSIVE Strip(_)
Strip(text) ==
    IF text = <<>> THEN <<>>
    ELSE IF Head(text) = " " THEN Strip(Tail(text))
    ELSE IF text[Len(text)] = " " THEN Strip(SubSeq(text, 1, Len(text) - 1))
    ELSE text

\* `if line_content: _log.info("LISA OUTPUT: %s ", line_content)`
LineRecords(line_content) ==
    IF line_content # <<>> THEN << Record("INFO", "LISA OUTPUT: %s ", line_content) >>
    ELSE <<>>

----------------------------------------------------------------------------
(* Inputs of the invoker check *)

KeyPath == PyStr(<<"logs", "/", "id_rsa">>)

InvokeRegions == { None, PyStr(<<>>), PyInt(<<"7">>), PyStr(<<"westus3">>) }

InvokeImages ==
    { None, PyStr(<<>>), PyList(<<"x">>),
      PyStr(<<"westus3", "/", "sub", "/", "Fedora-Cloud-41-x64", "/", "20250101.0">>) }

\* a config that is no dict
NonDictConfig(x) ==
    [t |-> x.t, subscription |-> None, private_key |-> None, log_path |-> None,
     run_name |-> None]

InvokeConfigs ==
    { NonDictConfig(None), NonDictConfig(PyList(<<"x">>)) }
    \cup { ConfigParams(sub, key, log_path, run_name) :
             sub \in {None, PyStr(<<>>), PyStr(<<"sub-0">>)},
             key \in {None, PyStr(<<>>), KeyPath},
             log_path \in {None, PyStr(<<>>), PyStr(<<"logs">>), PyInt(<<"5">>)},
             run_name \in {None, PyStr(<<"run">>)} }

InvokeArgs ==
    { [region |-> r, image |-> i, config |-> c] :
        r \in InvokeRegions, i \in InvokeImages, c \in InvokeConfigs }

\* the lines the child writes, without their newline: an empty line, a blank
\* one, text, text between blanks, bytes that are no UTF-8
OutputLines == { <<>>, <<" ">>, <<"a">>, <<" ", "b", " ">>, <<"\\xff">> }

\* the errors create_subprocess_exec raises
SpawnErrors == {"FileNotFoundError", "OSError"}

----------------------------------------------------------------------------
(* Test Invoker: one call of trigger_lisa, one step per action *)

InvokeIdle ==
    /\ t_args = [region |-> None, image |-> None, config |-> NonDictConfig(None)]
    /\ t_pc = "idle"
    /\ t_command = <<>>
    /\ t_child = "none"
    /\ t_code = 0
    /\ t_written = <<>>
    /\ t_nread = 0
    /\ t_log = <<>>
    /\ t_result = LisaPending

Validated == trigger_lisa_validate(t_args.region, t_args.image, t_args.config)

\* what is logged up to "Starting LISA test with command"
StartRecords ==
    OptionalRecords(t_args.config)
    \o << Record("INFO", "Starting LISA test with command: %s",
                 Join(Command(t_args.region, t_args.image, t_args.config))) >>

\* a check ahead of the try block fails: its error is logged, False returned
LisaRejected ==
    /\ t_pc = "call"
    /\ Validated # "ok"
    /\ t_log' = << Record("ERROR", Validated, <<>>) >>
    /\ t_result' = LisaReturn("False")
    /\ t_pc' = "returned"
    /\ UNCHANGED <<conf, validateVars, findVars, resolveVars, extractVars, workVars, publishVars, runVars, t_args, t_command, t_child,
                   t_code, t_written, t_nread>>

\* " ".join(command) raises on an element that is no str
LisaCommandFails ==
    /\ t_pc = "call"
    /\ Validated = "ok"
    /\ JoinRaises(t_args.config)
    /\ Except("TypeError", OptionalRecords(t_args.config))
    /\ t_pc' = "returned"
    /\ UNCHANGED <<conf, validateVars, findVars, resolveVars, extractVars, workVars, publishVars, runVars, t_args, t_command, t_child,
                   t_code, t_written, t_nread>>

\* await asyncio.create_subprocess_exec(*command, ...) starts the child
LisaSpawn ==
    /\ t_pc = "call"
    /\ Validated = "ok"
    /\ ~JoinRaises(t_args.config)
    /\ t_log' = StartRecords
    /\ t_command' = Command(t_args.region, t_args.image, t_args.config)
    /\ t_child' = "running"
    /\ t_pc' = "reading"
    /\ UNCHANGED <<conf, validateVars, findVars, resolveVars, extractVars, workVars, publishVars, runVars, t_args, t_code, t_written,
                   t_nread, t_result>>

\* create_subprocess_exec raises: no such binary, or another OS error
LisaSpawnFails(e) ==
    /\ t_pc = "call"
    /\ Validated = "ok"
    /\ ~JoinRaises(t_args.config)
    /\ Except(e, StartRecords)
    /\ t_pc' = "returned"
    /\ UNCHANGED <<conf, validateVars, findVars, resolveVars, extractVars, workVars, publishVars, runVars, t_args, t_command, t_child,
                   t_code, t_written, t_nread>>

\* the child writes a line to its stdout or stderr, both the one pipe
ChildWrites(line) ==
    /\ t_child = "running"
    /\ Len(t_written) < MaxLines
    /\ t_written' = Append(t_written, line)
    /\ UNCHANGED <<conf, validateVars, findVars, resolveVars, extractVars, workVars, publishVars, runVars, t_args, t_pc, t_command,
                   t_child, t_code, t_nread, t_log, t_result>>

\* the child exits, which closes the pipe
ChildExits(code) ==
    /\ t_child = "running"
    /\ t_child' = "exited"
    /\ t_code' = code
    /\ UNCHANGED <<conf, validateVars, findVars, resolveVars, extractVars, workVars, publishVars, runVars, t_args, t_pc, t_command,
                   t_written, t_nread, t_log, t_result>>

\* one round of `async for line in process.stdout`: lines 95-98
LisaReadLine ==
    /\ t_pc = "reading"
    /\ t_nread < Len(t_written)
    /\ t_nread' = t_nread + 1
    /\ LET line == t_written[t_nread + 1]
       IN IF DecodeRaises(line)
          THEN Except("UnicodeDecodeError", t_log) /\ t_pc' = "returned"
          ELSE /\ t_log' = t_log \o LineRecords(Strip(line))
               /\ UNCHANGED <<t_result, t_pc>>
    /\ UNCHANGED <<conf, validateVars, findVars, resolveVars, extractVars, workVars, publishVars, runVars, t_args, t_command, t_child,
                   t_code, t_written>>

\* end of the output; await process.wait(); the returncode check: lines 100-107
LisaWait ==
    /\ t_pc = "reading"
    /\ t_nread = Len(t_written)
    /\ t_child = "exited"
    /\ t_log' = t_log \o
                  << IF t_code = 0
                     THEN Record("INFO", "LISA test completed successfully", <<>>)
                     ELSE Record("ERROR", "LISA test failed with return code: %d", <<>>) >>
    /\ t_result' = LisaReturn(ReturnOf(t_code))
    /\ t_pc' = "returned"
    /\ UNCHANGED <<conf, validateVars, findVars, resolveVars, extractVars, workVars, publishVars, runVars, t_args, t_command, t_child,
                   t_code, t_written, t_nread>>

----------------------------------------------------------------------------
(* Result Publisher *)

StringFields == {"architecture", "compose_id", "image_id", "image_definition_name",
                 "image_resource_id"}
GroupFields == {"list_of_failed_tests", "list_of_skipped_tests", "list_of_passed_tests"}

\* (mutant) the passed and the failed names changing places
GroupNamesSwapped(results, k) ==
    CASE k = "list_of_failed_tests" -> results.passed_test_names
      [] k = "list_of_skipped_tests" -> results.skipped_test_names
      [] OTHER -> results.failed_test_names

\* test_results.get("failed_test_names", []) and its like: lines 253-255
GroupNames(results, k) ==
    CASE k = "list_of_failed_tests" -> results.failed_test_names
      [] k = "list_of_skipped_tests" -> results.skipped_test_names
      [] OTHER -> results.passed_test_names

_build_result_message_body(original_message, results) ==
    [k \in StringFields \cup GroupFields |->
        CASE k = "image_id" -> original_message.body.f["image_definition_name"]
          [] k \in StringFields -> original_message.body.f[k]
          [] OTHER -> PyList(GroupNames(results, k))]

\* body_schema["required"]
Required == StringFields \cup GroupFields

\* $defs/testResults: an object of exactly count, an integer, and tests, an
\* object whose every value is a string
TestResultsValid(g) ==
    /\ g.t = "dict"
    /\ DOMAIN g.f = {"count", "tests"}
    /\ g.f.count.t = "int"
    /\ g.f.tests.t = "dict"
    /\ \A id \in DOMAIN g.f.tests.f : g.f.tests.f[id].t = "str"

\* AzureTestResults.body_schema: the eight required properties are there, the
\* five identity fields are strings and the three groups are $defs/testResults;
\* a property the schema does not name is let through
SchemaValid(body) ==
    /\ Required \subseteq DOMAIN body
    /\ \A k \in StringFields : body[k].t = "str"
    /\ \A k \in GroupFields : TestResultsValid(body[k])

\* what api.publish can come to: the broker is not reached (ConnectionException),
\* does not answer in time (PublishTimeout), rejects the publish
\* (PublishForbidden), or the message is validated and handed over
PublishOutcomes == {"unreachable", "timeout", "rejected", "reached"}

\* the except clauses of publish_test_results, with what each logs
ValidationCaught == {"ValidationError"}
ConnectivityCaught == {"PublishTimeout", "ConnectionException"}
UnexpectedCaught == {"OSError", "KeyError", "TypeError"}

\* the exception classes publish_test_results catches
PublishCaught == ValidationCaught \cup ConnectivityCaught \cup UnexpectedCaught

\* api.publish(result_message): [exc, delivered]
api_publish(body, outcome) ==
    CASE outcome = "unreachable" -> [exc |-> "ConnectionException", delivered |-> FALSE]
      [] outcome = "timeout" -> [exc |-> "PublishTimeout", delivered |-> FALSE]
      [] outcome = "rejected" -> [exc |-> "PublishForbidden", delivered |-> FALSE]
      [] OTHER -> IF SchemaValid(body) THEN [exc |-> "none", delivered |-> TRUE]
                  ELSE [exc |-> "ValidationError", delivered |-> FALSE]

\* the records publish_test_results logs for what api.publish did
PublishRecords(exc) ==
    << Record("INFO", "Publishing test results for image: %s", <<>>) >>
    \o (CASE exc = "none" ->
               << Record("INFO", "Successfully published test results for %s", <<>>) >>
          [] exc \in ValidationCaught ->
               << Record("ERROR", "Message validation failed: %s", <<exc>>),
                  Record("ERROR", "Invalid message body: %s", <<>>) >>
          [] exc \in ConnectivityCaught ->
               << Record("ERROR", "Failed to publish test results due to connectivity: %s",
                         <<exc>>) >>
          [] exc \in UnexpectedCaught ->
               << Record("ERROR", "Unexpected error during publishing: %s", <<exc>>) >>
          [] OTHER -> <<>>)

\* [exc: what leaves the call, delivered, sent: the bodies given to api.publish, log]
publish_test_results(original_message, results, outcome) ==
    LET body == _build_result_message_body(original_message, results)
        sent == api_publish(body, outcome)
    IN [exc |-> IF sent.exc \in PublishCaught THEN "none" ELSE sent.exc,
        delivered |-> sent.delivered,
        sent |-> <<body>>,
        log |-> PublishRecords(sent.exc)]

----------------------------------------------------------------------------
(* Pipeline Orchestrator: azure_published_callback, one step per action *)

DirNames == {"lisa_results_a_logs", "lisa_results_b_logs"}

NoReport == [dir |-> FALSE, found |-> FALSE, doc |-> EmptyDocument]

NoCalls == [created |-> 0, keygen |-> 0, runners |-> 0, spawned |-> 0, parse |-> 0,
            publish |-> 0, delivered |-> 0, cleanups |-> 0]

ValidResourceId == PyStr(<<"/", "subscriptions", "/", "test-sub", "/", "resourceGroups">>)

\* the notifications the host delivers
Notifications ==
    { Message(NonDict(PyStr(<<"not_a_dict">>))),
      Message(BodyOf(PyStr(<<"Fedora-Cloud-Unsupported-x64">>), PyStr(<<"20250101.0">>),
                     ValidResourceId)),
      Message(BodyOf(PyStr(<<"Fedora-Cloud-41-x64">>), None, ValidResourceId)),
      Message(BodyOf(PyStr(<<"Fedora-Cloud-41-x64">>), PyStr(<<"20250101.0">>),
                     ValidResourceId)),
      Message(BodyOf(PyStr(<<"Fedora-Cloud-Rawhide-x64">>), PyStr(<<"20250101.0">>),
                     PyStr(<<"/", "/">>))) }

\* Scenario D: <testsuite tests="3"> with a failed, a skipped and a plain test case
ScenarioD ==
    [wellformed |-> TRUE,
     root |-> Element("testsuite", PyStr(<<"a">>), Attrib(PyStr(<<"3">>), None, None, None),
                      <<>>,
                      << TestCase(PyStr(<<"e">>), TRUE, FALSE, FALSE),
                         TestCase(PyStr(<<"d">>), FALSE, FALSE, TRUE),
                         TestCase(PyStr(<<"c">>), FALSE, FALSE, FALSE) >>)]

\* what the tool can leave under <log_path>/<run_name>
ToolReports ==
    { NoReport,
      [dir |-> TRUE, found |-> FALSE, doc |-> EmptyDocument],
      [dir |-> TRUE, found |-> TRUE, doc |-> ScenarioD],
      [dir |-> TRUE, found |-> TRUE, doc |-> [ScenarioD EXCEPT !.wellformed = FALSE]],
      [dir |-> TRUE, found |-> TRUE, doc |-> [ScenarioD EXCEPT !.root.tag = "html"]],
      [dir |-> TRUE, found |-> TRUE,
       doc |-> [ScenarioD EXCEPT !.root.attrib["tests"] = PyStr(<<"^2">>)]] }

\* the exceptions `except OSError` of azure_published_callback catches
CallbackCaught == {"OSError"}

\* (mutant) __exit__ that leaves the directory
WithExitKeeps(dirs, d) == dirs

\* TemporaryDirectory.__exit__: the directory and all in it are removed
WithExit(dirs, d) == dirs \ {d}

\* datetime.now(timezone.utc).strftime("%Y-%m-%dT%H:%MZ"): nothing finer than the minute
strftime(now) == PyStr(<<"2025-01-01T10:0" \o ToString(now) \o "Z">>)

\* os.path.join(a, b)
PathJoin(a, b) == a \o <<"/">> \o b

\* the argument that follows a flag of the command, <<>> when the flag is not there
ArgAfter(argv, flag) ==
    IF \E i \in 1..(Len(argv) - 1) : argv[i] = <<flag>>
    THEN argv[(CHOOSE i \in 1..(Len(argv) - 1) : argv[i] = <<flag>>) + 1]
    ELSE <<>>

\* where the tool writes its report: <-l>/<-i>, a place of its own choosing
\* when either is not given
ToolRunDirectory(argv) ==
    IF ArgAfter(argv, "-l") = <<>> \/ ArgAfter(argv, "-i") = <<>> THEN <<"lisa_default">>
    ELSE PathJoin(ArgAfter(argv, "-l"), ArgAfter(argv, "-i"))

\* what os.path.join(log_path, run_name) holds after the tool ran with argv
ReportAt(argv, searched, left) ==
    IF argv # <<>> /\ ToolRunDirectory(argv) = searched THEN left ELSE NoReport

RunInit ==
    /\ pc = "idle"
    /\ runs = 0
    /\ notification = Message(NonDict(None))
    /\ image = None
    /\ fs = {}
    /\ workspace = "none"
    /\ keyfile = "absent"
    /\ private_key = None
    /\ report = NoReport
    /\ proc = "none"
    /\ exitCode = 0
    /\ ret = "unset"
    /\ test_results = ParsePending
    /\ raising = "none"
    /\ escaped = "none"
    /\ log = {}
    /\ calls = NoCalls
    /\ minute = 0
    /\ current_run_name = None
    /\ names = <<>>
    /\ lisa_command = <<>>
    /\ searched_path = <<>>
    /\ steps = <<>>

\* the host delivers a notification: lines 131-152
Receive(m) ==
    /\ pc \in {"idle", "done"}
    /\ runs < MaxRuns
    /\ runs' = runs + 1
    /\ notification' = m
    /\ LET got == get_community_gallery_image(m, conf)
       IN /\ image' = got.val
          /\ IF got.exc # "none"
             THEN pc' = "done" /\ escaped' = got.exc /\ log' = {}
             ELSE IF ~Truthy(got.val)
             THEN pc' = "done" /\ escaped' = "none" /\ log' = {"filtered_out"}
             ELSE pc' = "resolved" /\ escaped' = "none" /\ log' = {}
    /\ workspace' = "none"
    /\ keyfile' = "absent"
    /\ private_key' = None
    /\ report' = NoReport
    /\ proc' = "none"
    /\ exitCode' = 0
    /\ ret' = "unset"
    /\ test_results' = ParsePending
    /\ raising' = "none"
    /\ calls' = NoCalls
    /\ LET got == get_community_gallery_image(m, conf)
           named == got.exc = "none" /\ Truthy(got.val)
       IN /\ current_run_name' = IF named THEN strftime(minute) ELSE None
          /\ names' = IF named THEN Append(names, strftime(minute)) ELSE names
    /\ lisa_command' = <<>>
    /\ searched_path' = <<>>
    /\ steps' = <<>>
    /\ UNCHANGED <<checkVars, minute, fs>>

\* `with TemporaryDirectory(...) as log_path`: mkdtemp makes a directory of a new name
CreateWorkspace ==
    /\ pc = "resolved"
    /\ \E d \in DirNames \ fs :
           /\ workspace' = d
           /\ fs' = fs \cup {d}
    /\ calls' = [calls EXCEPT !.created = @ + 1]
    /\ pc' = "workspace_ready"
    /\ steps' = Append(steps, "workspace")
    /\ UNCHANGED <<checkVars, minute, current_run_name, names, lisa_command, searched_path,
                   runs, notification, image, keyfile, private_key, report, proc, exitCode, ret,
                   test_results, raising, escaped, log>>

\* mkdtemp raises OSError: no directory, and `except OSError` logs it
CreateWorkspaceFails ==
    /\ pc = "resolved"
    /\ pc' = "done"
    /\ log' = log \cup {"oserror"}
    /\ UNCHANGED <<checkVars, minute, current_run_name, names, lisa_command, searched_path, steps,
                   runs, notification, image, fs, workspace, keyfile, private_key, report, proc,
                   exitCode, ret, test_results, raising, escaped, calls>>

\* private_key = self._generate_ssh_key_pair(log_path)
GenerateKey(outcome) ==
    /\ pc = "workspace_ready"
    /\ LET got == _generate_ssh_key_pair(workspace, outcome)
       IN /\ private_key' = got.val
          /\ keyfile' = got.file
          /\ calls' = [calls EXCEPT !.keygen = @ + (IF got.started THEN 1 ELSE 0)]
          /\ raising' = got.exc
          /\ pc' = IF got.exc = "none" THEN "keyed" ELSE "exiting"
          /\ log' = log \cup got.logged
    /\ steps' = Append(steps, "key")
    /\ UNCHANGED <<checkVars, minute, current_run_name, names, lisa_command, searched_path,
                   runs, notification, image, fs, workspace, report, proc, exitCode, ret,
                   test_results, escaped>>

\* config_params: lines 166-171
TriggerConfig ==
    ConfigParams(PyStr(conf.subscription_id), private_key, PyStr(<<workspace>>),
                 current_run_name)

TriggerArgsOk == trigger_lisa_validate(PyStr(conf.region), image, TriggerConfig) = "ok"

\* the argv trigger_lisa builds from them
TriggerCommand == Command(PyStr(conf.region), image, TriggerConfig)

\* runner = LisaRunner(); asyncio.run(runner.trigger_lisa(...)) returns False at a
\* failed check, no process started
InvokeRejected ==
    /\ pc = "keyed"
    /\ ~TriggerArgsOk
    /\ calls' = [calls EXCEPT !.runners = @ + 1]
    /\ ret' = "False"
    /\ pc' = "returned"
    /\ steps' = Append(steps, "invoke")
    /\ UNCHANGED <<checkVars, minute, current_run_name, names, lisa_command, searched_path,
                   runs, notification, image, fs, workspace, keyfile, private_key, report, proc,
                   exitCode, test_results, raising, escaped, log>>

\* the checks pass and create_subprocess_exec starts the tool
InvokeStart ==
    /\ pc = "keyed"
    /\ TriggerArgsOk
    /\ calls' = [calls EXCEPT !.runners = @ + 1, !.spawned = @ + 1]
    /\ proc' = "running"
    /\ pc' = "running"
    /\ steps' = Append(steps, "invoke")
    /\ lisa_command' = TriggerCommand
    /\ UNCHANGED <<checkVars, minute, current_run_name, names, searched_path,
                   runs, notification, image, fs, workspace, keyfile, private_key, report,
                   exitCode, ret, test_results, raising, escaped, log>>

\* create_subprocess_exec raises (no such binary, OS error): `except Exception`
\* of trigger_lisa returns False
InvokeSpawnFails ==
    /\ pc = "keyed"
    /\ TriggerArgsOk
    /\ calls' = [calls EXCEPT !.runners = @ + 1]
    /\ ret' = "False"
    /\ pc' = "returned"
    /\ steps' = Append(steps, "invoke")
    /\ UNCHANGED <<checkVars, minute, current_run_name, names, lisa_command, searched_path,
                   runs, notification, image, fs, workspace, keyfile, private_key, report, proc,
                   exitCode, test_results, raising, escaped, log>>

\* asyncio.run itself raises OSError (no event loop can be made)
InvokeLoopFails ==
    /\ pc = "keyed"
    /\ calls' = [calls EXCEPT !.runners = @ + 1]
    /\ raising' = "OSError"
    /\ pc' = "exiting"
    /\ steps' = Append(steps, "invoke")
    /\ UNCHANGED <<checkVars, minute, current_run_name, names, lisa_command, searched_path,
                   runs, notification, image, fs, workspace, keyfile, private_key, report, proc,
                   exitCode, ret, test_results, escaped, log>>

\* the tool closes its output and exits; await process.wait(); return
ToolExit(code, left) ==
    /\ pc = "running"
    /\ proc' = "exited"
    /\ exitCode' = code
    /\ report' = left
    /\ ret' = ReturnOf(code)
    /\ pc' = "returned"
    /\ UNCHANGED <<checkVars, minute, current_run_name, names, lisa_command, searched_path, steps,
                   runs, notification, image, fs, workspace, keyfile, private_key, test_results,
                   raising, escaped, log, calls>>

\* what becomes of the child when the task awaiting it is cancelled: trigger_lisa
\* has no finally and no terminate()/kill(), so the child runs on; the finaliser
\* of the event loop's subprocess transport may kill it if it gets to run
CancelOutcomes == {"running", "killed"}

\* the host stops while trigger_lisa awaits the child (lines 95-100): the await
\* raises CancelledError, which `except Exception` does not catch, and asyncio.run
\* raises KeyboardInterrupt into the with block
Cancel(child) ==
    /\ pc = "running"
    /\ proc' = child
    /\ raising' = "KeyboardInterrupt"
    /\ pc' = "exiting"
    /\ UNCHANGED <<checkVars, minute, current_run_name, names, lisa_command, searched_path, steps,
                   runs, notification, image, fs, workspace, keyfile, private_key, report,
                   exitCode, ret, test_results, escaped, log, calls>>

\* line.decode() raises in the read loop (lines 95-98): `except Exception`
\* returns False, the child neither waited for nor stopped
InvokeReadFails ==
    /\ pc = "running"
    /\ ret' = "False"
    /\ pc' = "returned"
    /\ UNCHANGED <<checkVars, layoutVars, runs, notification, image, fs, workspace, keyfile,
                   private_key, report, proc, exitCode, test_results, raising, escaped, log,
                   calls>>

\* a minute boundary passes
Tick ==
    /\ minute < MaxMinutes
    /\ minute' = minute + 1
    /\ UNCHANGED <<checkVars, current_run_name, names, lisa_command, searched_path, steps, pc, runs, notification,
                   image, fs, workspace, keyfile, private_key, report, proc, exitCode, ret,
                   test_results, raising, escaped, log, calls>>

\* (mutant) a failed run waited on
AfterReturnWaits(r) == IF RetEqualsZero(r) THEN "parsing" ELSE "returned"

\* where `if ret == 0:` ... `else:` goes: into the parser, or to the end of the block
AfterReturn(r) == IF RetEqualsZero(r) THEN "parsing" ELSE "exiting"

\* `if ret == 0:` ... `else:` lines 183-193
CheckReturn ==
    /\ pc = "returned"
    /\ pc' = AfterReturn(ret)
    /\ log' = log \cup {IF RetEqualsZero(ret) THEN "lisa_ok" ELSE "lisa_failed"}
    /\ UNCHANGED <<checkVars, minute, current_run_name, names, lisa_command, searched_path, steps,
                   runs, notification, image, fs, workspace, keyfile, private_key, report, proc,
                   exitCode, ret, test_results, raising, escaped, calls>>

\* (mutant) no test of the results
IsNotNoneAlways(results) == TRUE

\* `if test_results is not None:`
IsNotNone(results) == ~results.none

\* test_results = self._parse_test_results(log_path, run_name)
Parse ==
    /\ pc = "parsing"
    /\ LET got == _parse_test_results(
                      ReportAt(lisa_command,
                               PathJoin(<<workspace>>, Format(current_run_name)), report))
       IN /\ test_results' = got
          /\ raising' = got.exc
          /\ IF got.exc # "none" THEN pc' = "exiting" /\ log' = log
             ELSE IF ~IsNotNone(got)
             THEN pc' = "exiting" /\ log' = log \cup {"parse_failed"}
             ELSE pc' = "publishing" /\ log' = log \cup {"results"}
    /\ calls' = [calls EXCEPT !.parse = @ + 1]
    /\ steps' = Append(steps, "extract")
    /\ searched_path' = PathJoin(<<workspace>>, Format(current_run_name))
    /\ UNCHANGED <<checkVars, minute, current_run_name, names, lisa_command,
                   runs, notification, image, fs, workspace, keyfile, private_key, report, proc,
                   exitCode, ret, escaped>>

\* self.publish_test_results(message, test_results)
Publish(outcome) ==
    /\ pc = "publishing"
    /\ LET got == publish_test_results(notification, test_results.summary, outcome)
       IN /\ raising' = got.exc
          /\ calls' = [calls EXCEPT !.publish = @ + 1,
                                    !.delivered = @ + (IF got.delivered THEN 1 ELSE 0)]
    /\ pc' = "exiting"
    /\ steps' = Append(steps, "publish")
    /\ UNCHANGED <<checkVars, minute, current_run_name, names, lisa_command, searched_path,
                   runs, notification, image, fs, workspace, keyfile, private_key, report, proc,
                   exitCode, ret, test_results, escaped, log>>

\* the with block is left, by its end or by an exception: the directory goes,
\* then `except OSError` catches or the exception leaves the callback
ExitWith ==
    /\ pc = "exiting"
    /\ fs' = WithExit(fs, workspace)
    /\ keyfile' = "absent"
    /\ report' = NoReport
    /\ calls' = [calls EXCEPT !.cleanups = @ + 1]
    /\ IF raising \in CallbackCaught
       THEN escaped' = "none" /\ log' = log \cup {"oserror"}
       ELSE escaped' = raising /\ log' = log
    /\ raising' = "none"
    /\ pc' = "done"
    /\ steps' = Append(steps, "remove")
    /\ UNCHANGED <<checkVars, minute, current_run_name, names, lisa_command, searched_path,
                   runs, notification, image, workspace, private_key, proc, exitCode, ret,
                   test_results>>

----------------------------------------------------------------------------
(* Result Publisher: one call of publish_test_results *)

\* reports the extractor turns into a summary
PublishReports ==
    { [dir |-> TRUE, found |-> TRUE, doc |-> d] :
        d \in { ScenarioD, EmptyDocument,
                [ScenarioD EXCEPT !.root.attrib = NoAttrib, !.root.name = None] } }

PublishResults == { _parse_test_results(r).summary : r \in PublishReports }

\* notifications that pass the resolver, with or without the fields it does not read
PublishMessages ==
    { Message(Dict([BodyOf(d, PyStr(<<"20250101.0">>), rid).f
                       EXCEPT !["architecture"] = a, !["compose_id"] = c])) :
        d \in {PyStr(<<"Fedora-Cloud-41-x64">>), PyStr(<<"Fedora-Cloud-Rawhide-Arm64">>)},
        rid \in {ValidResourceId, PyStr(<<"/", "/">>)},
        a \in {PyStr(<<"x86_64">>), PyInt(<<"6", "4">>), None},
        c \in {PyStr(<<"Fedora-Rawhide-20250922.n.0">>), None} }

PublishPending == [exc |-> "pending"]

PublishIdle ==
    /\ p_message = Message(NonDict(None))
    /\ p_results = <<>>
    /\ p_body = <<>>
    /\ p_log = <<>>
    /\ p_result = PublishPending

\* one call of publish_test_results(message, test_results)
PublishCall(outcome) ==
    /\ p_result = PublishPending
    /\ p_message # Message(NonDict(None))
    /\ LET got == publish_test_results(p_message, p_results, outcome)
       IN /\ p_body' = p_body \o got.sent
          /\ p_log' = p_log \o got.log
          /\ p_result' = [exc |-> got.exc]
    /\ UNCHANGED <<conf, validateVars, findVars, resolveVars, extractVars, invokeVars, workVars, runVars,
                   p_message, p_results>>

----------------------------------------------------------------------------
(* Report Extractor: _find_xml_file on a directory tree *)

\* A file name is a sequence of atoms chosen so that the report suffix is one
\* atom; a path is the sequence of names below log_path.
ReportSuffix == "lisa.junit.xml"

\* run_name, and the name of a sibling directory that starts with it
RunName == <<"2025-01-01T10:00Z">>
SiblingName == <<"2025-01-01T10:00Z", "-2">>

\* filename.endswith("lisa.junit.xml")
EndsWith(filename) == Len(filename) > 0 /\ filename[Len(filename)] = ReportSuffix

File(path) == [path |-> path, kind |-> "file"]
Directory(path) == [path |-> path, kind |-> "dir"]

Parent(path) == SubSeq(path, 1, Len(path) - 1)

\* os.path.exists(path), log_path itself being there
Exists(tree, path) == path = <<>> \/ \E e \in tree : e.path = path

\* (mutant) the search starts at log_path
XmlPathLogPath(run_name) == <<>>

\* xml_path = os.path.join(log_path, run_name)
XmlPath(run_name) == <<run_name>>

\* for root, _, files in os.walk(top): the files of a directory come before its
\* subdirectories, the order within a directory is the file system's; the
\* result is the set of paths the first match can be
RECURSIVE Walk(_, _)
Walk(tree, top) ==
    LET files == { e \in tree : e.kind = "file" /\ Parent(e.path) = top }
        dirs == { e \in tree : e.kind = "dir" /\ Parent(e.path) = top }
        matching == { e.path : e \in { f \in files : EndsWith(f.path[Len(f.path)]) } }
    IN IF matching # {} THEN matching
       ELSE UNION { Walk(tree, d.path) : d \in dirs }

FindPending == [t |-> "pending", path |-> <<>>]
FindNone == [t |-> "none", path |-> <<>>]
FindPath(path) == [t |-> "str", path |-> path]

\* what _find_xml_file(log_path, run_name) can return
FindXmlFile(tree, run_name) ==
    LET xml_path == XmlPath(run_name)
    IN IF ~Exists(tree, xml_path) THEN {FindNone}
       ELSE IF Walk(tree, xml_path) = {} THEN {FindNone}
       ELSE { FindPath(q) : q \in Walk(tree, xml_path) }

\* what the tool can leave under <log_path>/<run_name>
RunTrees ==
    { {}, {File(<<RunName>>)} }
    \cup { {Directory(<<RunName>>)} \cup a \cup b \cup c \cup d :
             a \in { {}, {File(<<RunName, <<ReportSuffix>>>>)} },
             b \in { {}, {File(<<RunName, <<"console.log">>>>)},
                         {File(<<RunName, <<"LISA.JUNIT.XML">>>>)} },
             c \in { {},
                     {Directory(<<RunName, <<"x.", ReportSuffix>>>>),
                      File(<<RunName, <<"x.", ReportSuffix>>, <<"console.log">>>>)} },
             d \in { {Directory(<<RunName, <<"sub">>>>)} \cup f \cup g :
                        f \in { {}, {File(<<RunName, <<"sub">>, <<"a.", ReportSuffix>>>>)} },
                        g \in { {}, {File(<<RunName, <<"sub">>, <<ReportSuffix, ".bak">>>>)},
                                    {File(<<RunName, <<"sub">>, <<"b.", ReportSuffix>>>>)} } }
                    \cup { {} } }

\* what else can be in the workspace
OtherTrees ==
    { a \cup b \cup c :
        a \in { {}, {File(<<<<ReportSuffix>>>>)} },
        b \in { {}, {Directory(<<SiblingName>>), File(<<SiblingName, <<ReportSuffix>>>>)} },
        c \in { {}, {File(<<<<"id_rsa">>>>)} } }

FindTrees == { r \cup o : r \in RunTrees, o \in OtherTrees }

FindIdle ==
    /\ f_tree = {}
    /\ f_result = FindPending

\* one call of _find_xml_file(log_path, run_name)
Find ==
    /\ f_result = FindPending
    /\ f_result' \in FindXmlFile(f_tree, RunName)
    /\ UNCHANGED <<conf, validateVars, resolveVars, extractVars, invokeVars, workVars, publishVars,
                   runVars, f_tree>>

----------------------------------------------------------------------------
(* Message schema: AzureTestResults(body=...).validate() *)

\* a value of $defs/testResults
TestResults(count, tests) == Dict([count |-> count, tests |-> Dict(tests)])

\* the test groups of tests/test_publish.py: none, one and two tests
NoTests == TestResults(PyInt(<<"0">>), <<>>)
OneTest ==
    TestResults(PyInt(<<"1">>),
                "Dns.verify_dns_name_resolution" :> PyStr(<<"Test passed in 8.379 seconds">>))
TwoTests ==
    TestResults(PyInt(<<"2">>),
                ("Dhcp.verify_dhcp_client_timeout" :> PyStr(<<"DHCP client timeout">>))
                @@ ("Storage.verify_swap" :> PyStr(<<"Swap configuration">>)))
ValidGroups == {NoTests, OneTest, TwoTests}

\* groups that are no $defs/testResults: a list of identifiers, a count that
\* is a string
Groups ==
    ValidGroups
    \cup { PyList(<<"Dns.verify_dns_name_resolution">>),
           TestResults(PyStr(<<"1">>),
                       "Storage.verify_swap" :> PyStr(<<"Swap configuration">>)) }

\* the property names the bodies of tests/test_publish.py use
TestBodyKeys == {"architecture", "compose_id", "image_id", "image_resource_id",
                "failed_tests", "skipped_tests", "passed_tests"}

\* a body as TestSchemaIntegration builds it
TestBody(arch, failed, skipped, passed) ==
    [architecture |-> arch,
     compose_id |-> PyStr(<<"Fedora-41-20241001.n.0">>),
     image_id |-> PyStr(<<"Fedora-Cloud-41-x64">>),
     image_resource_id |-> ValidResourceId,
     failed_tests |-> failed,
     skipped_tests |-> skipped,
     passed_tests |-> passed]

\* a body with the property names of body_schema
SchemaBody(arch, failed, skipped, passed) ==
    [architecture |-> arch,
     compose_id |-> PyStr(<<"Fedora-41-20241001.n.0">>),
     image_id |-> PyStr(<<"Fedora-Cloud-41-x64">>),
     image_definition_name |-> PyStr(<<"Fedora-Cloud-41-x64">>),
     image_resource_id |-> ValidResourceId,
     list_of_failed_tests |-> failed,
     list_of_skipped_tests |-> skipped,
     list_of_passed_tests |-> passed]

ValidateBodies ==
    { TestBody(a, f, k, q) :
        a \in {PyStr(<<"x86_64">>), PyStr(<<"aarch64">>)},
        f \in ValidGroups, k \in ValidGroups, q \in ValidGroups }
    \cup { SchemaBody(a, f, k, q) :
             a \in {PyStr(<<"x86_64">>), None}, f \in Groups, k \in Groups, q \in Groups }

ValidateIdle ==
    /\ v_body = <<>>
    /\ v_result = "pending"

\* message = AzureTestResults(body=v_body); message.validate()
Validate ==
    /\ v_result = "pending"
    /\ v_body # <<>>
    /\ v_result' = IF SchemaValid(v_body) THEN "none" ELSE "ValidationError"
    /\ UNCHANGED <<conf, findVars, resolveVars, extractVars, invokeVars, workVars, publishVars,
                   runVars, v_body>>

----------------------------------------------------------------------------
(* Workspace Provisioner: the workspaces of runs in flight together *)

Workers == 1..MaxWorkers

\* the definition names of the notifications the workers handle
WorkDefinitions == {"Fedora-Cloud-41-x64", "Fedora-Cloud-Rawhide-x64"}

\* the random part mkdtemp puts between prefix and suffix
RandomNames == {"sm4j99g8", "x1h1o1xn", "q0w_e7rt"}

\* prefix=f"lisa_results_{image_definition_name}_", suffix="_logs"
TempName(image_definition_name, random) ==
    "lisa_results_" \o image_definition_name \o "_" \o random \o "_logs"

\* (mutant) a name made of the prefix and suffix alone, taken whether or not it exists
mkdtempFixed(image_definition_name, existing) ==
    { TempName(image_definition_name, "") }

\* tempfile.mkdtemp: a name no existing entry has (mkdir of a name that exists
\* fails and another name is tried)
mkdtemp(image_definition_name, existing) ==
    { TempName(image_definition_name, r) : r \in RandomNames } \ existing

\* the key pair ssh-keygen -f <dir>/id_rsa writes
KeyFiles(dir, by) ==
    { [dir |-> dir, name |-> "id_rsa", by |-> by],
      [dir |-> dir, name |-> "id_rsa.pub", by |-> by] }

\* shutil.rmtree(name) of TemporaryDirectory.__exit__, on the files
RmtreeFiles(files, d) == { f \in files : f.dir # d }

NoRun == [phase |-> "idle", dir |-> "", key |-> None, n |-> 0, met |-> FALSE]

WorkIdle ==
    /\ w_run = [w \in Workers |-> NoRun]
    /\ w_dirs = {}
    /\ w_files = {}

InFlight(w) == w_run[w].phase \in {"workspace", "keyed"}

\* a worker takes a notification: `with TemporaryDirectory(...) as log_path`
WorkCreate(w, image_definition_name) ==
    /\ w_run[w].phase = "idle"
    /\ w_run[w].n < MaxRuns
    /\ \E d \in mkdtemp(image_definition_name, w_dirs) :
           /\ w_dirs' = w_dirs \cup {d}
           /\ w_run' = [w_run EXCEPT ![w] =
                           [phase |-> "workspace", dir |-> d, key |-> None, n |-> @.n + 1,
                            met |-> \E o \in Workers \ {w} : InFlight(o)]]
    /\ UNCHANGED <<conf, validateVars, findVars, resolveVars, extractVars, invokeVars, publishVars, runVars, w_files>>

\* private_key = self._generate_ssh_key_pair(log_path)
WorkKeygen(w, outcome) ==
    /\ w_run[w].phase = "workspace"
    /\ LET got == _generate_ssh_key_pair(w_run[w].dir, outcome)
       IN /\ w_run' = [w_run EXCEPT ![w].phase = "keyed", ![w].key = got.val]
          /\ w_files' = IF got.file = "absent" THEN w_files
                        ELSE w_files \cup KeyFiles(w_run[w].dir, <<w, w_run[w].n>>)
    /\ UNCHANGED <<conf, validateVars, findVars, resolveVars, extractVars, invokeVars, publishVars, runVars, w_dirs>>

\* the with block of the worker's run is left
WorkExit(w) ==
    /\ InFlight(w)
    /\ w_dirs' = WithExit(w_dirs, w_run[w].dir)
    /\ w_files' = RmtreeFiles(w_files, w_run[w].dir)
    /\ w_run' = [w_run EXCEPT ![w].phase = "idle", ![w].key = None]
    /\ UNCHANGED <<conf, validateVars, findVars, resolveVars, extractVars, invokeVars, publishVars, runVars>>

----------------------------------------------------------------------------
(* Specifications *)

vars == <<conf, r_message, r_result, x_report, x_result, invokeVars, workVars, publishVars,
          validateVars, findVars,
          pc, runs, notification, image, fs,
          workspace, keyfile, private_key, report, proc, exitCode, ret, test_results,
          raising, escaped, log, calls, layoutVars>>

ResolveIdle ==
    /\ r_message = Message(NonDict(None))
    /\ r_result = Pending

ExtractIdle ==
    /\ x_report = NoReport
    /\ x_result = ParsePending

ResolveInit ==
    /\ conf \in Confs
    /\ r_message \in { Message(b) : b \in ResolverBodies }
    /\ r_result = Pending
    /\ ExtractIdle
    /\ InvokeIdle
    /\ WorkIdle
    /\ PublishIdle
    /\ ValidateIdle
    /\ FindIdle
    /\ RunInit

\* one call of get_community_gallery_image(message)
Resolve ==
    /\ r_result = Pending
    /\ r_result' = get_community_gallery_image(r_message, conf)
    /\ UNCHANGED <<conf, validateVars, findVars, r_message, extractVars, invokeVars, workVars, publishVars, runVars>>

SpecResolve == ResolveInit /\ [][Resolve]_vars

ExtractInit ==
    /\ conf \in Confs
    /\ x_report \in Reports
    /\ x_result = ParsePending
    /\ ResolveIdle
    /\ InvokeIdle
    /\ WorkIdle
    /\ PublishIdle
    /\ ValidateIdle
    /\ FindIdle
    /\ RunInit

\* one call of _parse_test_results(log_path, run_name)
Extract ==
    /\ x_result = ParsePending
    /\ x_result' = _parse_test_results(x_report)
    /\ UNCHANGED <<conf, validateVars, findVars, x_report, resolveVars, invokeVars, workVars, publishVars, runVars>>

SpecExtract == ExtractInit /\ [][Extract]_vars

InvokeInit ==
    /\ conf \in Confs
    /\ t_args \in InvokeArgs
    /\ t_pc = "call"
    /\ t_command = <<>>
    /\ t_child = "none"
    /\ t_code = 0
    /\ t_written = <<>>
    /\ t_nread = 0
    /\ t_log = <<>>
    /\ t_result = LisaPending
    /\ ResolveIdle
    /\ ExtractIdle
    /\ WorkIdle
    /\ PublishIdle
    /\ ValidateIdle
    /\ FindIdle
    /\ RunInit

Invoke ==
    \/ LisaRejected
    \/ LisaCommandFails
    \/ LisaSpawn
    \/ \E e \in SpawnErrors : LisaSpawnFails(e)
    \/ \E line \in OutputLines : ChildWrites(line)
    \/ \E code \in ExitCodes : ChildExits(code)
    \/ LisaReadLine
    \/ LisaWait

SpecInvoke == InvokeInit /\ [][Invoke]_vars

WorkInit ==
    /\ conf \in Confs
    /\ WorkIdle
    /\ ResolveIdle
    /\ ExtractIdle
    /\ InvokeIdle
    /\ PublishIdle
    /\ ValidateIdle
    /\ FindIdle
    /\ RunInit

Work ==
    \/ \E w \in Workers, d \in WorkDefinitions : WorkCreate(w, d)
    \/ \E w \in Workers, o \in {"ok", "exit_nonzero", "no_file"} : WorkKeygen(w, o)
    \/ \E w \in Workers : WorkExit(w)

SpecWork == WorkInit /\ [][Work]_vars

PublishInit ==
    /\ conf \in Confs
    /\ p_message \in PublishMessages
    /\ p_results \in PublishResults
    /\ p_body = <<>>
    /\ p_log = <<>>
    /\ p_result = PublishPending
    /\ ValidateIdle
    /\ FindIdle
    /\ ResolveIdle
    /\ ExtractIdle
    /\ InvokeIdle
    /\ WorkIdle
    /\ RunInit

ValidateInit ==
    /\ conf \in Confs
    /\ v_body \in ValidateBodies
    /\ v_result = "pending"
    /\ FindIdle
    /\ ResolveIdle
    /\ ExtractIdle
    /\ InvokeIdle
    /\ WorkIdle
    /\ PublishIdle
    /\ RunInit

FindInit ==
    /\ conf \in Confs
    /\ f_tree \in FindTrees
    /\ f_result = FindPending
    /\ ValidateIdle
    /\ ResolveIdle
    /\ ExtractIdle
    /\ InvokeIdle
    /\ WorkIdle
    /\ PublishIdle
    /\ RunInit

SpecFind == FindInit /\ [][Find]_vars

SpecValidate == ValidateInit /\ [][Validate]_vars

SpecPublish == PublishInit /\ [][\E o \in PublishOutcomes : PublishCall(o)]_vars

Init ==
    /\ conf \in Confs
    /\ ResolveIdle
    /\ ExtractIdle
    /\ InvokeIdle
    /\ WorkIdle
    /\ PublishIdle
    /\ ValidateIdle
    /\ FindIdle
    /\ RunInit

Next ==
    \/ \E m \in Notifications : Receive(m)
    \/ CreateWorkspace
    \/ CreateWorkspaceFails
    \/ \E o \in KeygenOutcomes : GenerateKey(o)
    \/ InvokeRejected
    \/ InvokeStart
    \/ InvokeSpawnFails
    \/ InvokeLoopFails
    \/ \E code \in ExitCodes, left \in ToolReports : ToolExit(code, left)
    \/ InvokeReadFails
    \/ \E child \in CancelOutcomes : Cancel(child)
    \/ Tick
    \/ CheckReturn
    \/ Parse
    \/ \E o \in PublishOutcomes : Publish(o)
    \/ ExitWith

Spec == Init /\ [][Next]_vars

\* the steps of a run in progress: the statements of azure_published_callback,
\* which the thread that was handed the notification executes one after the
\* other, ssh-keygen returning or being timed out after 60 s, and the child
\* closing its output and exiting
RunStep ==
    \/ CreateWorkspace
    \/ CreateWorkspaceFails
    \/ \E o \in KeygenOutcomes : GenerateKey(o)
    \/ InvokeRejected
    \/ InvokeStart
    \/ InvokeSpawnFails
    \/ InvokeLoopFails
    \/ \E code \in ExitCodes, left \in ToolReports : ToolExit(code, left)
    \/ InvokeReadFails
    \/ \E child \in CancelOutcomes : Cancel(child)
    \/ CheckReturn
    \/ Parse
    \/ \E o \in PublishOutcomes : Publish(o)
    \/ ExitWith

\* the orchestrator with a run in progress always taking its next step
SpecLive == Init /\ [][Next]_vars /\ WF_vars(RunStep)

----------------------------------------------------------------------------
(* Claims about the Pipeline Orchestrator, checked under Spec *)

\* the tool was started and has exited
Exited == proc = "exited"

\* C1: a non-zero exit of the tool ends the run as FAILED: _parse_test_results
\* is never called and nothing is published for that notification.
C1_NonZeroExitFails ==
    (Exited /\ exitCode # 0) =>
        /\ calls.parse = 0
        /\ calls.publish = 0
        /\ (pc = "done" => "lisa_failed" \in log)

\* C2: after an exit with code 0 the run calls _parse_test_results, and makes
\* exactly one publish attempt when that yields a ReportSummary.
C2_ZeroExitParsesAndPublishes ==
    (Exited /\ exitCode = 0 /\ pc = "done") =>
        /\ calls.parse = 1
        /\ (test_results.exc = "none" /\ ~test_results.none) => calls.publish = 1

\* C3: a run that created a workspace directory has removed it, and all in it,
\* exactly once when the callback is done, whichever way the run ended; no
\* directory is removed twice or without having been created.
C3_WorkspaceRemovedOnce ==
    /\ calls.cleanups <= calls.created
    /\ calls.created <= 1
    /\ (pc = "done" /\ calls.created = 1) =>
           /\ calls.cleanups = 1
           /\ workspace \notin fs
           /\ keyfile = "absent"
           /\ report = NoReport

\* the key utility hung, the exception left the callback, the directory is gone
C3_Witness ==
    /\ pc = "done"
    /\ escaped = "TimeoutExpired"
    /\ calls.created = 1
    /\ calls.cleanups = 1
    /\ workspace \notin fs

\* C4: no exception leaves azure_published_callback.
C4_NothingEscapes == escaped = "none"

\* the definition name of the notification is not on the allow-list
OutsideAllowList(m) ==
    \/ m.body.t # "dict"
    \/ m.body.f["image_definition_name"].t # "str"
    \/ m.body.f["image_definition_name"].v \notin SUPPORTED_FEDORA_VERSIONS

\* C5: for a notification whose definition name is off the allow-list the
\* resolver answers None and the callback returns at once: no workspace, no
\* key, no runner, no process, no publish.
C5_UnsupportedFilteredOut ==
    (runs > 0 /\ OutsideAllowList(notification)) =>
        /\ image = None
        /\ pc = "done"
        /\ "filtered_out" \in log
        /\ escaped = "none"
        /\ calls = NoCalls
        /\ workspace = "none"
        /\ keyfile = "absent"
        /\ proc = "none"

\* an unsupported definition name with every other field valid, filtered out
C5_Witness ==
    /\ pc = "done"
    /\ notification.body.f["image_definition_name"] = PyStr(<<"Fedora-Cloud-Unsupported-x64">>)
    /\ notification.body.f["image_resource_id"] = ValidResourceId
    /\ "filtered_out" \in log
    /\ calls = NoCalls

\* C11: when _parse_test_results returns None (no run directory, no report file
\* in it, or a report that does not parse) the run logs the parse failure, makes
\* no publish attempt, and ends with its workspace removed.
C11_NotFoundSkipsPublish ==
    test_results = NoSummary =>
        /\ pc \in {"exiting", "done"}
        /\ "parse_failed" \in log
        /\ calls.publish = 0
        /\ calls.delivered = 0
        /\ pc = "done" => (calls.cleanups = 1 /\ workspace \notin fs)

\* Scenario E: the tool left no run directory, the parser answered None
C11_Witness ==
    /\ pc = "exiting"
    /\ report = NoReport
    /\ proc = "exited"
    /\ test_results = NoSummary
    /\ calls.parse = 1
    /\ calls.publish = 0

\* the key utility exited non-zero, or left no private key file
KeygenFailed ==
    \/ "Failed to generate SSH key pair: CalledProcessError" \in log
    \/ "private key file was not found" \in log

\* C16: when the key utility exits non-zero or leaves no private key file the
\* run is aborted: no key is used in its place, the tool is never spawned,
\* _parse_test_results is not called and nothing is published.
C16_KeygenFailureAborts ==
    KeygenFailed =>
        /\ private_key = None
        /\ calls.spawned = 0
        /\ proc = "none"
        /\ calls.parse = 0
        /\ calls.publish = 0

\* C21: the image reference is not None exactly when the run calls trigger_lisa:
\* a None reference never leads to a call, and a run with a reference has made
\* its one call by the time the callback is done, also when the workspace could
\* not be created or the key could not be generated.
C21_ReferenceIffInvocation ==
    /\ calls.runners > 0 => image # None
    /\ (pc = "done" /\ runs > 0 /\ image # None) => calls.runners = 1

\* C22: when the host stops while the child runs, the child is terminated and
\* the workspace removed before the callback is left; no child a run started is
\* still running once that run has ended.
C22_CancelTerminatesChild ==
    pc = "done" =>
        /\ proc # "running"
        /\ escaped = "KeyboardInterrupt" => (workspace \notin fs /\ calls.cleanups = 1)

\* the extractor searched the directory the tool was told to write to
SameLocation ==
    (lisa_command # <<>> /\ calls.parse > 0) =>
        /\ ArgAfter(lisa_command, "-l") = <<workspace>>
        /\ ArgAfter(lisa_command, "-i") = Format(current_run_name)
        /\ searched_path = ToolRunDirectory(lisa_command)

\* a step between the start of the tool and the extraction changes neither value
KeepsLocation ==
    pc \in {"running", "returned", "parsing"} =>
        (current_run_name' = current_run_name /\ workspace' = workspace)

\* C25: the log path and run name given to the tool with -l and -i are the
\* values the extractor builds its search root <log_path>/<run_name> from, and
\* neither changes from the start of the tool to the extraction, however long
\* the tool runs.
C25_SameReportLocation == []SameLocation /\ [][KeepsLocation]_vars

\* the clock passed a minute boundary while the tool ran, and its report was found
C25_Witness ==
    /\ pc = "publishing"
    /\ lisa_command # <<>>
    /\ current_run_name # strftime(minute)
    /\ searched_path = PathJoin(<<workspace>>, Format(current_run_name))
    /\ test_results.exc = "none" /\ ~test_results.none

\* C27: any two runs started one after the other in the same process have
\* different run names, also when both start within the same clock minute.
C27_RunNamesDistinct ==
    \A i, j \in 1..Len(names) : i # j => names[i] # names[j]

\* the place of a step in the order of the with block
StepRank(step) ==
    CASE step = "workspace" -> 1
      [] step = "key" -> 2
      [] step = "invoke" -> 3
      [] step = "extract" -> 4
      [] step = "publish" -> 5
      [] OTHER -> 6

\* every step but the removal follows directly on the one before it in the
\* order, and the removal, of a workspace that was created, is the last
StepsOrdered ==
    \A i \in 1..Len(steps) :
        IF steps[i] = "remove" THEN i = Len(steps) /\ i > 1
        ELSE StepRank(steps[i]) = i

\* until the removal the workspace is there
WorkspaceThere ==
    (steps # <<>> /\ steps[Len(steps)] # "remove") => workspace \in fs

\* extraction, publish and removal begin only once the child is no longer running
ChildCompleted ==
    (\E i \in 1..Len(steps) : steps[i] \in {"extract", "publish", "remove"}) =>
        proc # "running"

\* C26: the steps of a run come one after the other in the order workspace
\* creation, key generation, invocation and wait, extraction, publish, removal,
\* each beginning only when the one before is complete; extraction and publish
\* find the workspace in place and the removal comes after the publish attempt.
C26_StepsInOrder == StepsOrdered /\ WorkspaceThere /\ ChildCompleted

\* the values of admin_private_key_file among the -v arguments of the command
KeyArguments(argv) ==
    { SubSeq(argv[i], 2, Len(argv[i])) :
        i \in { k \in 1..Len(argv) : argv[k] # <<>> /\ argv[k][1] = "admin_private_key_file:" } }

\* C30: the private key path handed to the tool is <workspace>/id_rsa of the
\* run's own workspace, the file is mode 0600 when the tool is started, and once
\* the workspace is removed no key file of the run is left.
C30_KeyConfinedToWorkspace ==
    /\ lisa_command # <<>> => KeyArguments(lisa_command) = { <<workspace, "/", "id_rsa">> }
    /\ (pc = "running" /\ proc = "running") => (keyfile = "0600" /\ workspace \in fs)
    /\ (pc = "done" /\ calls.created = 1) => (keyfile = "absent" /\ workspace \notin fs)

\* a run that started the tool with its key has ended and removed the key
C30_Witness ==
    /\ pc = "done"
    /\ calls.spawned = 1
    /\ KeyArguments(lisa_command) = { <<workspace, "/", "id_rsa">> }
    /\ keyfile = "absent"
    /\ workspace \notin fs

\* a run is in progress: the notification was not filtered out and the callback
\* has not been left
InProgress == pc \notin {"idle", "done"}

\* the callback has been left, the workspace of the run, if it made one, removed
Terminated ==
    /\ pc = "done"
    /\ calls.created = 1 => (calls.cleanups = 1 /\ workspace \notin fs)

\* C29: given that the key utility returns and the child closes its output and
\* exits, every run that is not filtered out terminates, its workspace, once
\* created, removed; no run stays in progress forever.
C29_RunTerminates == InProgress ~> Terminated

\* a run that started the tool, parsed its report and published has ended
C29_Witness ==
    /\ Terminated
    /\ calls.created = 1
    /\ calls.spawned = 1
    /\ calls.parse = 1
    /\ calls.publish = 1

----------------------------------------------------------------------------
(* Claims about the Image Identifier Resolver, checked under SpecResolve *)

SlashPositions(s) == { i \in 1..Len(s) : s[i] = "/" }

\* the position of the n-th slash of s
NthSlash(s, n) ==
    CHOOSE i \in SlashPositions(s) : Cardinality({ j \in SlashPositions(s) : j < i }) = n - 1

\* what lies between the 2nd slash and the 3rd (or the end)
ThirdSegment(s) ==
    SubSeq(s, NthSlash(s, 2) + 1,
           IF Cardinality(SlashPositions(s)) >= 3 THEN NthSlash(s, 3) - 1 ELSE Len(s))

FieldOf(message, key) == message.body.f[key]

\* a mapping body, an allow-listed definition name, a non-empty version name and
\* a resource id of at least 3 segments
ValidNotification(message) ==
    /\ message.body.t = "dict"
    /\ FieldOf(message, "image_definition_name").t = "str"
    /\ FieldOf(message, "image_definition_name").v \in SUPPORTED_FEDORA_VERSIONS
    /\ FieldOf(message, "image_version_name").t = "str"
    /\ FieldOf(message, "image_version_name").v # <<>>
    /\ FieldOf(message, "image_resource_id").t = "str"
    /\ Cardinality(SlashPositions(FieldOf(message, "image_resource_id").v)) >= 2

\* C6: for a valid notification the resolver returns exactly
\* region/3rd-segment/definition/version, an empty 3rd segment included.
C6_ReferenceComposed ==
    (r_result # Pending /\ ValidNotification(r_message)) =>
        r_result = Return(PyStr(
            conf.region \o <<"/">>
            \o ThirdSegment(FieldOf(r_message, "image_resource_id").v) \o <<"/">>
            \o FieldOf(r_message, "image_definition_name").v \o <<"/">>
            \o FieldOf(r_message, "image_version_name").v))

\* the resource id "//" resolved to region//definition/version
C6_Witness ==
    /\ FieldOf(r_message, "image_resource_id") = PyStr(<<"/", "/">>)
    /\ r_result = Return(PyStr(<<"westus3", "/", "/", "Fedora-Cloud-41-x64", "/",
                                 "20250101.0">>))

MissingOrEmpty(x) == x = None \/ x = PyStr(<<>>)

\* the notifications the resolver is to answer NotApplicable
NotApplicable(message) ==
    \/ message.body.t # "dict"
    \/ FieldOf(message, "image_definition_name").t # "str"
    \/ FieldOf(message, "image_definition_name").v \notin SUPPORTED_FEDORA_VERSIONS
    \/ \E k \in {"image_definition_name", "image_version_name", "image_resource_id"} :
           MissingOrEmpty(FieldOf(message, k))
    \/ FieldOf(message, "image_resource_id").t # "str"
    \/ Cardinality(SlashPositions(FieldOf(message, "image_resource_id").v)) < 2

\* C7: the resolver never raises, and returns None for a body that is no mapping,
\* a definition name off the allow-list, a missing or empty field, or a resource
\* id (string or not) of fewer than 3 segments.
C7_FailsSoft ==
    /\ r_result.exc \in {"pending", "none"}
    /\ (r_result # Pending /\ NotApplicable(r_message)) => r_result = Return(None)

\* a resource id that is an int, every other field valid, answered None
C7_Witness ==
    /\ r_result = Return(None)
    /\ FieldOf(r_message, "image_resource_id") = PyInt(<<"7">>)
    /\ FieldOf(r_message, "image_definition_name") = PyStr(<<"Fedora-Cloud-41-x64">>)
    /\ FieldOf(r_message, "image_version_name") = PyStr(<<"20250101.0">>)

----------------------------------------------------------------------------
(* Claims about the Report Extractor, checked under SpecExtract *)

Extracted == x_result.exc = "none" /\ ~x_result.none

Slots(root) ==
    IF root.tag = "testsuites"
    THEN { <<i, j>> \in (1..Len(root.suites)) \X (1..(MaxCases + 1)) :
               root.suites[i].tag = "testsuite" /\ j <= Len(root.suites[i].cases) }
    ELSE { <<0, j>> : j \in 1..Len(root.cases) }

SuiteAt(root, slot) == IF slot[1] = 0 THEN root ELSE root.suites[slot[1]]
CaseAt(root, slot) == SuiteAt(root, slot).cases[slot[2]]

\* suiteName.testName, a missing name attribute reading None
NameText(x) == IF x = None THEN <<"None">> ELSE x.v
IdAt(root, slot) ==
    NameText(SuiteAt(root, slot).name) \o <<".">> \o NameText(CaseAt(root, slot).name)

Failing(c) == c.failure \/ c.error
PlainSlots(root) ==
    { s \in Slots(root) : ~Failing(CaseAt(root, s)) /\ ~CaseAt(root, s).skipped }
FailingSlots(root) == { s \in Slots(root) : Failing(CaseAt(root, s)) }
SkippedChildSlots(root) == { s \in Slots(root) : CaseAt(root, s).skipped }
SkippedOnlySlots(root) ==
    { s \in Slots(root) : CaseAt(root, s).skipped /\ ~Failing(CaseAt(root, s)) }

NoDuplicates(ids) == \A i, j \in 1..Len(ids) : i # j => ids[i] # ids[j]

AllNames(summary) ==
    summary.passed_test_names \o summary.failed_test_names \o summary.skipped_test_names

\* every entry of ids is the identifier of one of the slots
FromSlots(ids, root, slots) ==
    \A i \in 1..Len(ids) : \E s \in slots : ids[i] = IdAt(root, s)

\* C9 as stated: N/F/S entries, S counting every test case with a skipped child,
\* and no identifier twice.
C9_RoundTripAsStated ==
    Extracted =>
        LET root == x_report.doc.root
            sm == x_result.summary
        IN /\ Len(sm.passed_test_names) = Cardinality(PlainSlots(root))
           /\ Len(sm.failed_test_names) = Cardinality(FailingSlots(root))
           /\ Len(sm.skipped_test_names) = Cardinality(SkippedChildSlots(root))
           /\ NoDuplicates(AllNames(sm))
           /\ FromSlots(AllNames(sm), root, Slots(root))

\* C9 amended: one entry per test case, a test case counting as skipped only when
\* it has no failure or error child; every identifier is suiteName.testName; the
\* identifiers are distinct whenever those of the report's test cases are.
C9_RoundTrip ==
    Extracted =>
        LET root == x_report.doc.root
            sm == x_result.summary
        IN /\ Len(sm.passed_test_names) = Cardinality(PlainSlots(root))
           /\ Len(sm.failed_test_names) = Cardinality(FailingSlots(root))
           /\ Len(sm.skipped_test_names) = Cardinality(SkippedOnlySlots(root))
           /\ FromSlots(sm.passed_test_names, root, PlainSlots(root))
           /\ FromSlots(sm.failed_test_names, root, FailingSlots(root))
           /\ FromSlots(sm.skipped_test_names, root, SkippedOnlySlots(root))
           /\ (\A s, t \in Slots(root) : s # t => IdAt(root, s) # IdAt(root, t))
                  => NoDuplicates(AllNames(sm))

\* one passed, one failed and one skipped test case of one suite, extracted
C9_Witness ==
    /\ Extracted
    /\ x_result.summary.passed_test_names = << <<"a", ".", "c">> >>
    /\ x_result.summary.failed_test_names = << <<"a", ".", "e">> >>
    /\ x_result.summary.skipped_test_names = << <<"a", ".", "d">> >>

\* C10: a located report that is not well-formed XML, or whose root is neither
\* a test suite nor a collection of them, yields None, never a ReportSummary.
C10_MalformedIsNotFound ==
    ( /\ x_result # ParsePending
      /\ _find_xml_file(x_report)
      /\ \/ ~x_report.doc.wellformed
         \/ x_report.doc.root.tag \notin {"testsuite", "testsuites"} )
    => x_result = NoSummary

\* a document that breaks off after a test case, answered None
C10_Witness ==
    /\ x_result = NoSummary
    /\ x_report.found
    /\ ~x_report.doc.wellformed
    /\ Len(x_report.doc.root.cases) = 1

\* the slots of the i-th and later children of a <testsuites> root, in document order
RECURSIVE SlotSeqFrom(_, _)
SlotSeqFrom(root, i) ==
    IF i > Len(root.suites) THEN <<>>
    ELSE (IF root.suites[i].tag = "testsuite"
          THEN [j \in 1..Len(root.suites[i].cases) |-> <<i, j>>]
          ELSE <<>>)
         \o SlotSeqFrom(root, i + 1)

\* the <testcase> elements directly under the considered test suites, in document order
SlotSeq(root) ==
    IF root.tag = "testsuites" THEN SlotSeqFrom(root, 1)
    ELSE [j \in 1..Len(root.cases) |-> <<0, j>>]

\* the list a test case belongs in: failure child, then error child, then skipped child
ListOf(c) ==
    CASE c.failure -> "failed"
      [] ~c.failure /\ c.error -> "failed"
      [] ~c.failure /\ ~c.error /\ c.skipped -> "skipped"
      [] OTHER -> "passed"

\* the identifiers of the test cases that belong in one list, in document order
Expected(root, list) ==
    LET kept == SelectSeq(SlotSeq(root), LAMBDA s : ListOf(CaseAt(root, s)) = list)
    IN [i \in 1..Len(kept) |-> IdAt(root, kept[i])]

\* C28: every <testcase> directly under a considered test suite is in exactly
\* one of failed, skipped, passed, a failure child deciding before an error child
\* and both before a skipped child; the three lists together have as many
\* entries as there are such test cases.
C28_PartitionByPrecedence ==
    Extracted =>
        LET root == x_report.doc.root
            sm == x_result.summary
        IN /\ sm.failed_test_names = Expected(root, "failed")
           /\ sm.skipped_test_names = Expected(root, "skipped")
           /\ sm.passed_test_names = Expected(root, "passed")
           /\ Len(sm.failed_test_names) + Len(sm.skipped_test_names)
                  + Len(sm.passed_test_names) = Cardinality(Slots(root))

\* a test case with a failure and a skipped child beside a passed one: failed only
C28_Witness ==
    /\ Extracted
    /\ \E s \in Slots(x_report.doc.root) :
           CaseAt(x_report.doc.root, s).failure /\ CaseAt(x_report.doc.root, s).skipped
    /\ Len(x_result.summary.failed_test_names) = 1
    /\ x_result.summary.skipped_test_names = <<>>
    /\ Len(x_result.summary.passed_test_names) = 1

----------------------------------------------------------------------------
(* Claims about the Test Invoker, checked under SpecInvoke *)

NonEmptyStr(x) == x.t = "str" /\ x.v # <<>>
AbsentOrEmpty(x) == x = None \/ x.v = <<>>

\* the checks in the order region, image reference, config type, subscription,
\* private key: which are violated, and the message of each
Violated(args) ==
    << ~NonEmptyStr(args.region),
       ~NonEmptyStr(args.image),
       args.config.t # "dict",
       args.config.t = "dict" /\ AbsentOrEmpty(args.config.subscription),
       args.config.t = "dict" /\ AbsentOrEmpty(args.config.private_key) >>

CheckMessages ==
    << "Invalid region parameter: must be a non-empty string",
       "Invalid community_gallery_image parameter: must be a non-empty string",
       "Invalid config parameter: must be a dictionary",
       "Missing required parameter: subscription",
       "Missing required parameter: private_key" >>

PassesValidation(args) == \A i \in 1..5 : ~Violated(args)[i]

FirstViolated(args) ==
    CHOOSE i \in 1..5 : Violated(args)[i] /\ \A j \in 1..(i - 1) : ~Violated(args)[j]

ErrorRecords(records) == SelectSeq(records, LAMBDA r : r.level = "ERROR")

\* C12: with an argument that fails a check trigger_lisa starts no process and
\* returns False, logging exactly one error: the message of the first check
\* violated, in the order region, image reference, config type, subscription,
\* private key.
C12_FailsFastWithOneMessage ==
    ~PassesValidation(t_args) =>
        /\ t_pc \in {"call", "returned"}
        /\ t_child = "none"
        /\ t_command = <<>>
        /\ t_pc = "returned" =>
               /\ t_result = LisaReturn("False")
               /\ t_log = << Record("ERROR", CheckMessages[FirstViolated(t_args)], <<>>) >>

\* an empty subscription and a missing key: the subscription message alone
C12_Witness ==
    /\ t_pc = "returned"
    /\ NonEmptyStr(t_args.region)
    /\ NonEmptyStr(t_args.image)
    /\ t_args.config.t = "dict"
    /\ t_args.config.subscription = PyStr(<<>>)
    /\ t_args.config.private_key = None
    /\ t_log = << Record("ERROR", "Missing required parameter: subscription", <<>>) >>

\* C13: with arguments that pass the checks trigger_lisa returns True exactly
\* when the child was started, its output was read to the end and it exited
\* with code 0; any other exit code and any error while starting the child or
\* reading its output gives a returned False, never a raised exception.
C13_SuccessIffExitZero ==
    (PassesValidation(t_args) /\ t_pc = "returned") =>
        /\ t_result.exc = "none"
        /\ t_result.val \in {"True", "False"}
        /\ t_result.val = "True" <=>
               /\ t_child = "exited"
               /\ t_code = 0
               /\ t_nread = Len(t_written)
               /\ \A i \in 1..t_nread : ~DecodeRaises(t_written[i])

\* the child wrote bytes that do not decode: False is returned while it runs on
C13_Witness ==
    /\ PassesValidation(t_args)
    /\ t_pc = "returned"
    /\ t_child = "running"
    /\ t_result = LisaReturn("False")
    /\ t_nread > 0
    /\ DecodeRaises(t_written[t_nread])

\* a value that is given and not empty
Present(x) == x # None /\ x.v # <<>>

\* -v name:value
Variable(name, value) == << <<"-v">>, <<name>> \o value.v >>

\* C14: the argv of the child is the tool, -r and the runbook, -v tier:1, -v
\* test_case_name:verify_boot_error_fail_warnings, the four -v variables region,
\* community_gallery_image, subscription_id, admin_private_key_file in that order,
\* then -l <log_path> exactly when a log path is given and not empty, then
\* -i <run_name> exactly when a run name is given and not empty; nothing else.
C14_ArgumentVector ==
    t_child # "none" =>
        /\ PassesValidation(t_args)
        /\ t_command =
               << <<"lisa">>, <<"-r">>, <<"microsoft/runbook/azure_fedora.yml">>,
                  <<"-v">>, <<"tier:1">>,
                  <<"-v">>, <<"test_case_name:verify_boot_error_fail_warnings">> >>
               \o Variable("region:", t_args.region)
               \o Variable("community_gallery_image:", t_args.image)
               \o Variable("subscription_id:", t_args.config.subscription)
               \o Variable("admin_private_key_file:", t_args.config.private_key)
               \o (IF Present(t_args.config.log_path)
                   THEN << <<"-l">>, t_args.config.log_path.v >> ELSE <<>>)
               \o (IF Present(t_args.config.run_name)
                   THEN << <<"-i">>, t_args.config.run_name.v >> ELSE <<>>)

\* an empty log path and a run name: the argv ends with -i <run_name>, no -l
C14_Witness ==
    /\ t_child = "running"
    /\ t_args.config.log_path = PyStr(<<>>)
    /\ Len(t_command) = 17
    /\ SubSeq(t_command, 16, 17) = << <<"-i">>, <<"run">> >>

\* the texts of the "LISA OUTPUT" records, in the order logged
OutputTexts(records) ==
    LET kept == SelectSeq(records, LAMBDA r : r.msg = "LISA OUTPUT: %s ")
    IN [i \in 1..Len(kept) |-> kept[i].text]

\* the lines that are not empty once the blanks around them are taken off
NonEmptyLines(lines) ==
    LET kept == SelectSeq(lines, LAMBDA l : Strip(l) # <<>>)
    IN [i \in 1..Len(kept) |-> Strip(kept[i])]

ExitStatusRecords ==
    { Record("INFO", "LISA test completed successfully", <<>>),
      Record("ERROR", "LISA test failed with return code: %d", <<>>) }

\* C15: every non-empty line the child wrote is logged, in the order written,
\* as soon as it is read; the exit status is evaluated after the last line was
\* read and logged, and no line is logged again after it.
C15_EveryLineForwarded ==
    t_child # "none" =>
        /\ OutputTexts(t_log) = NonEmptyLines(SubSeq(t_written, 1, t_nread))
        /\ \A i \in 1..Len(t_log) :
               t_log[i] \in ExitStatusRecords =>
                   /\ i = Len(t_log)
                   /\ t_nread = Len(t_written)
                   /\ t_child = "exited"

----------------------------------------------------------------------------
(* Claims about the workspaces of several runs, checked under SpecWork *)

----------------------------------------------------------------------------
(* Claims about the Result Publisher, checked under SpecPublish *)

\* a test group of the outbound schema: an object of a count and a map from
\* test identifier to explanation, the count being the size of the map
ConformingGroup(g) ==
    /\ g.t = "dict"
    /\ g.count = Cardinality(DOMAIN g.tests)

\* C18: every body given to api.publish has architecture, compose_id, image_id
\* and image_resource_id as strings and each of the three groups as an object
\* {count, tests} whose count is the number of entries of tests.
C18_BodyConforms ==
    \A i \in 1..Len(p_body) :
        /\ \A k \in {"architecture", "compose_id", "image_id", "image_resource_id"} :
               p_body[i][k].t = "str"
        /\ \A k \in GroupFields : ConformingGroup(p_body[i][k])

\* C19: publish_test_results never raises, and calls api.publish exactly once,
\* whatever that call comes to.
C19_AbsorbsEveryFailure ==
    /\ p_result.exc \in {"pending", "none"}
    /\ p_result # PublishPending => Len(p_body) = 1

\* what the body of a finished call carries
CarriedVerbatim ==
    p_result # PublishPending =>
        /\ Len(p_body) = 1
        /\ \A k \in {"architecture", "compose_id", "image_resource_id",
                     "image_definition_name"} :
               p_body[1][k] = p_message.body.f[k]
        /\ p_body[1]["image_id"] = p_message.body.f["image_definition_name"]
        /\ p_body[1]["list_of_failed_tests"].v = p_results.failed_test_names
        /\ p_body[1]["list_of_skipped_tests"].v = p_results.skipped_test_names
        /\ p_body[1]["list_of_passed_tests"].v = p_results.passed_test_names

\* C20: the body carries architecture, compose_id, image_resource_id and the
\* definition name as the notification has them (None for a field it lacks), and
\* the three lists of test identifiers as the extractor returned them; the call
\* changes neither the notification nor the results.
C20_CopiedVerbatim ==
    /\ []CarriedVerbatim
    /\ [][p_message' = p_message /\ p_results' = p_results]_vars

\* Scenario D published for a notification that lacks its compose_id
C20_Witness ==
    /\ p_result = [exc |-> "none"]
    /\ p_message.body.f["compose_id"] = None
    /\ p_body[1]["compose_id"] = None
    /\ p_body[1]["list_of_failed_tests"] = PyList(<< <<"a", ".", "e">> >>)
    /\ p_body[1]["list_of_passed_tests"] = PyList(<< <<"a", ".", "c">> >>)

----------------------------------------------------------------------------
(* Claims about the message schema, checked under SpecValidate *)

\* a body of architecture, compose_id, image_id, image_resource_id as strings
\* and passed_tests, failed_tests, skipped_tests as {count: integer, tests:
\* {identifier: string}}
TestShaped(body) ==
    /\ DOMAIN body = TestBodyKeys
    /\ \A k \in {"architecture", "compose_id", "image_id", "image_resource_id"} :
           body[k].t = "str"
    /\ \A k \in {"passed_tests", "failed_tests", "skipped_tests"} : TestResultsValid(body[k])

\* C23: a body of the four string fields and the three groups passed_tests,
\* failed_tests, skipped_tests, each {count, tests}, passes validate(), also
\* with groups of count 0 and no tests.
C23_TestBodyPasses ==
    (v_result # "pending" /\ TestShaped(v_body)) => v_result = "none"

----------------------------------------------------------------------------
(* Claims about _find_xml_file, checked under SpecFind *)

\* the files at any depth under <log_path>/<run_name> named *lisa.junit.xml
ReportsUnderRun(tree) ==
    { e \in tree :
        /\ e.kind = "file"
        /\ Len(e.path) >= 2
        /\ e.path[1] = RunName
        /\ e.path[Len(e.path)] # <<>>
        /\ e.path[Len(e.path)][Len(e.path[Len(e.path)])] = "lisa.junit.xml" }

\* <log_path>/<run_name> is a directory
RunDirectoryThere(tree) == \E e \in tree : e.path = <<RunName>> /\ e.kind = "dir"

\* C24: _find_xml_file returns only the path of a file under
\* <log_path>/<run_name>, at any depth, whose name ends with lisa.junit.xml, and
\* returns None exactly when that directory is not there or holds no such file.
C24_FindsOnlyUnderRun ==
    f_result # FindPending =>
        /\ f_result.t = "str" => \E e \in ReportsUnderRun(f_tree) : e.path = f_result.path
        /\ f_result.t = "none" <=>
               (~RunDirectoryThere(f_tree) \/ ReportsUnderRun(f_tree) = {})

\* the only report of the run is two levels down, and reports lie elsewhere
C24_Witness ==
    /\ f_result = FindPath(<<RunName, <<"sub">>, <<"a.", ReportSuffix>>>>)
    /\ File(<<<<ReportSuffix>>>>) \in f_tree
    /\ File(<<SiblingName, <<ReportSuffix>>>>) \in f_tree
====
